---- MODULE Spec2Model ----
(***************************************************************************)
(* The two text-analysis tools of teacher_assistant/tools/custom_tool.py:  *)
(* NotesAnalysisTool.run and GradeLevelAnalyzer.run, as a state machine.   *)
(* A call of NotesAnalysisTool.run walks through its helpers in the order  *)
(* of the dict literal of run(); each helper's loop over the lines of the  *)
(* notes is one step per line.                                             *)
(*                                                                         *)
(* Texts are strings; Len, \o, SubSeq, Head and Tail act on them character *)
(* by character.  The module is ASCII: the bullet U+2022 of the source is  *)
(* written "@" throughout (Bullet), and no input text uses "@" otherwise.  *)
(***************************************************************************)
EXTENDS Integers, Sequences, FiniteSets, TLC

VARIABLES
    pc,                     \* where the running call stands; "idle" before a call, "done" after it
    tool,                   \* which tool's run() was called: "notes", "grade" or "none"
    notes,                  \* the argument of the call
    lines,                  \* notes.split('\n') of the helper that is running
    i,                      \* index in lines of the line the running helper's loop reads next
    subject_scores,         \* _identify_subject: the dict, as a sequence of <<subject, score>> in insertion order
    in_concepts_section,    \* _extract_key_concepts
    concepts,
    in_objectives_section,  \* _extract_objectives
    objectives,
    vocab,                  \* _extract_vocabulary
    topics,                 \* _extract_topics
    in_prior_section,       \* _extract_prior_knowledge
    prior_knowledge,
    in_realworld_section,   \* _extract_real_world
    connections,
    analysis,               \* run(): the dict built from the helpers' return values
    result,                 \* the value run() returned: a sequence of rendered pieces
    avg_word_length,        \* GradeLevelAnalyzer.run: a quotient [num, den]
    avg_sentence_length,
    grade_range,
    complexity,
    raised,                 \* TRUE when the call ended in an exception
    calls,                  \* the calls made so far, in order: <<tool, notes>>
    returned,               \* what the calls returned: the set of <<tool, notes, result>>
    main_pc,                \* main.py, where run() stands: "idle" before the process starts, "exited" after it
    api_key,                \* check_environment: os.getenv("OPENAI_API_KEY")
    argv,                   \* sys.argv[1:]
    typed,                  \* what the calls of input() gave so far, in order
    input_lines,            \* get_user_input: lines
    empty_line_count,       \* get_user_input
    main_notes,             \* run(): notes, once obtained
    confirm,                \* run(): the answer, stripped and lower-cased
    kickoff,                \* the crew's kickoff: "no", "returned" or "raised"
    output_file,            \* the results file: "absent", "partial" or "complete"
    exit_status             \* the status the process exited with, -1 while it runs

toolVars == <<pc, tool, notes, lines, i, subject_scores, in_concepts_section, concepts,
              in_objectives_section, objectives, vocab, topics, in_prior_section,
              prior_knowledge, in_realworld_section, connections, analysis, result,
              avg_word_length, avg_sentence_length, grade_range, complexity,
              raised, calls, returned>>

mainVars == <<main_pc, api_key, argv, typed, input_lines, empty_line_count, main_notes,
              confirm, kickoff, output_file, exit_status>>

vars == <<toolVars, mainVars>>

-----------------------------------------------------------------------------
(* Characters and the string methods the tools use.                        *)

Bullet == "@"

Char(s, p) == SubSeq(s, p, p)

\* s[a-1:b], a slice clipped to the string as Python clips it
Mid(s, a, b) ==
    LET e == IF b > Len(s) THEN Len(s) ELSE b
    IN  IF a < 1 \/ a > e THEN "" ELSE SubSeq(s, a, e)

UpperChars == "ABCDEFGHIJKLMNOPQRSTUVWXYZ"
LowerChars == "abcdefghijklmnopqrstuvwxyz"
DigitChars == "0123456789"

CharsOf(s) == {Char(s, p) : p \in 1..Len(s)}

UpperSet == CharsOf(UpperChars)
DigitSet == CharsOf(DigitChars)
\* str.strip(), str.split() and the regex class \s
SpaceSet == {" ", "\t", "\n", "\r", "\f"}

\* c.lower() of one character
LowerChar(c) ==
    IF c \in UpperSet
    THEN Char(LowerChars, CHOOSE p \in 1..Len(UpperChars) : Char(UpperChars, p) = c)
    ELSE c

\* s.lower(), character by character (halving keeps the recursion shallow)
RECURSIVE Lower(_)
Lower(s) ==
    IF Len(s) = 0 THEN ""
    ELSE IF Len(s) = 1 THEN LowerChar(s)
    ELSE LET h == Len(s) \div 2
         IN  Lower(SubSeq(s, 1, h)) \o Lower(SubSeq(s, h + 1, Len(s)))

\* k in s
Contains(s, k) == \E p \in 1..(Len(s) - Len(k) + 1) : SubSeq(s, p, p + Len(k) - 1) = k

\* any(k in s for k in ks), ks a sequence of strings
ContainsAny(s, ks) == \E n \in 1..Len(ks) : Contains(s, ks[n])

\* s.startswith(tuple of one-character strings)
StartsWithAny(s, cs) == s # "" /\ Head(s) \in cs

\* the number of leading (trailing) characters of s that are in cs
LeadRun(s, cs) ==
    CHOOSE n \in 0..Len(s) :
        /\ \A p \in 1..n : Char(s, p) \in cs
        /\ n = Len(s) \/ Char(s, n + 1) \notin cs

TrailRun(s, cs) ==
    CHOOSE n \in 0..Len(s) :
        /\ \A p \in (Len(s) - n + 1)..Len(s) : Char(s, p) \in cs
        /\ n = Len(s) \/ Char(s, Len(s) - n) \notin cs

\* re.sub(r'^[cs]+', '', s) and s.lstrip()
DropLead(s, cs) == Mid(s, LeadRun(s, cs) + 1, Len(s))

\* s.strip()
Strip(s) ==
    LET t == DropLead(s, SpaceSet)
    IN  Mid(t, 1, Len(t) - TrailRun(t, SpaceSet))

\* the position of the first character of s that is in cs, 0 when there is none
FirstOf(s, cs) ==
    IF \E p \in 1..Len(s) : Char(s, p) \in cs
    THEN CHOOSE p \in 1..Len(s) : Char(s, p) \in cs /\ \A q \in 1..(p - 1) : Char(s, q) \notin cs
    ELSE 0

\* s.split(c) and re.split(r'[cs]', s): cut at every character of cs, empty pieces kept.
\* The pieces of a string are those of its two halves, the last piece of the left
\* half and the first of the right half being one piece.
RECURSIVE SplitAt(_, _)
SplitAt(s, cs) ==
    IF Len(s) = 0 THEN <<"">>
    ELSE IF Len(s) = 1 THEN (IF s \in cs THEN <<"", "">> ELSE <<s>>)
    ELSE LET h == Len(s) \div 2
             l == SplitAt(SubSeq(s, 1, h), cs)
             r == SplitAt(SubSeq(s, h + 1, Len(s)), cs)
         IN  SubSeq(l, 1, Len(l) - 1) \o <<l[Len(l)] \o r[1]>> \o SubSeq(r, 2, Len(r))

\* the non-empty members of a sequence of strings, in order
NonEmpty(ss) == SelectSeq(ss, LAMBDA x : x # "")

\* s.split(): the whitespace-delimited tokens
Words(s) == NonEmpty(SplitAt(s, SpaceSet))

\* a return statement that forgets the slice
TakeAll(xs, n) == xs

\* xs[:n]
Take(xs, n) == SubSeq(xs, 1, IF Len(xs) < n THEN Len(xs) ELSE n)

-----------------------------------------------------------------------------
(* _identify_subject                                                       *)

subject_keywords == <<
    [subject |-> "Mathematics",
     keywords |-> <<"equation", "solve", "calculate", "algebra", "geometry",
                    "theorem", "formula", "graph", "function", "variable",
                    "quadratic", "polynomial", "trigonometry", "calculus">>],
    [subject |-> "Science",
     keywords |-> <<"experiment", "hypothesis", "cell", "atom", "chemistry",
                    "biology", "physics", "photosynthesis", "molecule", "energy",
                    "reaction", "organism", "ecosystem", "matter">>],
    [subject |-> "English/Language Arts",
     keywords |-> <<"grammar", "writing", "literature", "essay",
                    "poem", "reading", "paragraph", "sentence",
                    "comprehension", "vocabulary", "author", "theme">>],
    [subject |-> "Social Studies/History",
     keywords |-> <<"war", "revolution", "civilization", "government",
                    "geography", "culture", "society", "empire",
                    "constitution", "democracy", "economy">>],
    [subject |-> "Music",
     keywords |-> <<"rhythm", "melody", "notation", "tempo", "scale", "chord",
                    "instrument", "beat", "harmony", "composition">>],
    [subject |-> "Art",
     keywords |-> <<"painting", "drawing", "sculpture", "color theory", "perspective",
                    "composition", "medium", "texture", "artist">>],
    [subject |-> "Physical Education",
     keywords |-> <<"exercise", "fitness", "sport", "movement", "health",
                    "coordination", "athletics", "wellness">>],
    [subject |-> "Computer Science",
     keywords |-> <<"code", "programming", "algorithm", "software", "computer",
                    "variable", "function", "loop", "debug">>] >>

\* the number of positions of text at which k occurs
CountOccurrences(text, k) ==
    Cardinality({p \in 1..Len(text) : Mid(text, p, p + Len(k) - 1) = k})

\* the occurrences of all the keywords of a list, added up
RECURSIVE SumOccurrences(_, _)
SumOccurrences(keywords, text) ==
    IF keywords = <<>> THEN 0
    ELSE CountOccurrences(text, Head(keywords)) + SumOccurrences(Tail(keywords), text)

\* a score that counts every occurrence of a keyword
ScoreByOccurrences(keywords, notes_lower) == SumOccurrences(keywords, notes_lower)

\* score = sum(1 for keyword in keywords if keyword in notes_lower)
Score(keywords, notes_lower) ==
    Cardinality({n \in 1..Len(keywords) : Contains(notes_lower, keywords[n])})

\* the loop that fills subject_scores: an entry per subject with score > 0, in declaration order
RECURSIVE SubjectScores(_, _)
SubjectScores(table, notes_lower) ==
    IF table = <<>> THEN <<>>
    ELSE LET score == Score(Head(table).keywords, notes_lower)
         IN  (IF score > 0 THEN <<<<Head(table).subject, score>>>> ELSE <<>>)
             \o SubjectScores(Tail(table), notes_lower)

\* a maximum that keeps the last of equal values
MaxKeyLast(scores) ==
    LET best == CHOOSE n \in 1..Len(scores) :
                    /\ \A m \in 1..Len(scores) : scores[m][2] <= scores[n][2]
                    /\ \A m \in (n + 1)..Len(scores) : scores[m][2] < scores[n][2]
    IN  scores[best][1]

\* max(subject_scores, key=subject_scores.get): the first key, in insertion order, of maximal value
MaxKey(scores) ==
    LET best == CHOOSE n \in 1..Len(scores) :
                    /\ \A m \in 1..Len(scores) : scores[m][2] <= scores[n][2]
                    /\ \A m \in 1..(n - 1) : scores[m][2] < scores[n][2]
    IN  scores[best][1]

SubjectOf(scores) == IF scores # <<>> THEN MaxKey(scores) ELSE "General/Multi-Subject"

-----------------------------------------------------------------------------
(* _extract_grade_level                                                    *)

\* the maximal run of digits of s that starts at position p ("" when s has no digit there)
DigitsAt(s, p) == LET t == Mid(s, p, Len(s)) IN Mid(t, 1, LeadRun(t, DigitSet))

\* r'grade\s*(\d+)' matched at position p of s: group 1, "" when there is no match at p
GradeNAt(s, p) ==
    IF Mid(s, p, p + 4) = "grade"
    THEN LET rest == Mid(s, p + 5, Len(s))
         IN  DigitsAt(rest, LeadRun(rest, SpaceSet) + 1)
    ELSE ""

\* r'(\d+)(?:st|nd|rd|th)\s+grade' matched at position p of s
NthGradeAt(s, p) ==
    LET num  == DigitsAt(s, p)
        rest == Mid(s, p + Len(num) + 2, Len(s))
        gap  == LeadRun(rest, SpaceSet)
    IN  IF /\ num # ""
           /\ Mid(s, p + Len(num), p + Len(num) + 1) \in {"st", "nd", "rd", "th"}
           /\ gap >= 1
           /\ Mid(rest, gap + 1, gap + 5) = "grade"
        THEN num ELSE ""

\* r'level[:\s]+(\d+)' matched at position p of s
LevelNAt(s, p) ==
    IF Mid(s, p, p + 4) = "level"
    THEN LET rest == Mid(s, p + 5, Len(s))
             gap  == LeadRun(rest, SpaceSet \cup {":"})
         IN  IF gap >= 1 THEN DigitsAt(rest, gap + 1) ELSE ""
    ELSE ""

\* the three grade_patterns, by index
PatternAt(n, s, p) ==
    CASE n = 1 -> GradeNAt(s, p)
      [] n = 2 -> NthGradeAt(s, p)
      [] n = 3 -> LevelNAt(s, p)

NumPatterns == 3

\* re.search(grade_patterns[n], s): group 1 of the leftmost match, "" when there is none
Search(n, s) ==
    IF \E p \in 1..Len(s) : PatternAt(n, s, p) # ""
    THEN PatternAt(n, s, CHOOSE p \in 1..Len(s) :
                            /\ PatternAt(n, s, p) # ""
                            /\ \A q \in 1..(p - 1) : PatternAt(n, s, q) = "")
    ELSE ""

\* for pattern in grade_patterns: ... return f"Grade {grade_num}"; "" when no pattern matches
RECURSIVE FirstPattern(_, _)
FirstPattern(n, s) ==
    IF n > NumPatterns THEN ""
    ELSE IF Search(n, s) # "" THEN "Grade " \o Search(n, s)
    ELSE FirstPattern(n + 1, s)

\* the if/elif chain of level indicators; "" when none is present
LevelIndicator(s) ==
    IF ContainsAny(s, <<"elementary", "primary", "kindergarten">>) THEN "K-5 (Elementary)"
    ELSE IF ContainsAny(s, <<"middle school", "junior high">>) THEN "6-8 (Middle School)"
    ELSE IF ContainsAny(s, <<"high school", "secondary">>) THEN "9-12 (High School)"
    ELSE IF ContainsAny(s, <<"college", "university", "undergraduate">>) THEN "College/University"
    ELSE ""

\* the if/elif chain of complexity words; "" when none is present
ComplexityEstimate(s) ==
    IF ContainsAny(s, <<"basic", "introduction", "simple", "beginner">>)
    THEN "Elementary to Middle School (Est.)"
    ELSE IF ContainsAny(s, <<"advanced", "complex", "in-depth">>)
    THEN "High School to College (Est.)"
    ELSE ""

\* a chain that looks at the level indicators before the numeric patterns
ExtractGradeLevelIndicatorsFirst(text) ==
    LET notes_lower == Lower(text)
    IN  IF LevelIndicator(notes_lower) # "" THEN LevelIndicator(notes_lower)
        ELSE IF FirstPattern(1, notes_lower) # "" THEN FirstPattern(1, notes_lower)
        ELSE IF ComplexityEstimate(notes_lower) # "" THEN ComplexityEstimate(notes_lower)
        ELSE "Not Specified (Grades 6-12 adaptable)"

ExtractGradeLevel(text) ==
    LET notes_lower == Lower(text)
    IN  IF FirstPattern(1, notes_lower) # "" THEN FirstPattern(1, notes_lower)
        ELSE IF LevelIndicator(notes_lower) # "" THEN LevelIndicator(notes_lower)
        ELSE IF ComplexityEstimate(notes_lower) # "" THEN ComplexityEstimate(notes_lower)
        ELSE "Not Specified (Grades 6-12 adaptable)"

-----------------------------------------------------------------------------
(* The bodies of the helpers' loops over the lines.  Each takes the line   *)
(* and the section flag as the loop finds them and gives the flag as the   *)
(* iteration leaves it, the items it appends, and whether it raised.       *)

\* line.startswith((' ', '\t', '-', bullet, '*'))
BulletStart == {" ", "\t", "-", Bullet, "*"}

\* the character class of r'^[\s\-bullet*]+'
BulletClass == SpaceSet \cup {"-", Bullet, "*"}

\* re.sub(r'^[\s\-bullet*]+', '', line).strip()
Cleaned(line) == Strip(DropLead(line, BulletClass))

\* len(concept) > 5, len(item) > 5
MinItemLen == 5
\* len(objective) > 10
MinObjectiveLen == 10
\* len(topic) > 5 and len(topic) < 100
MinTopicLen == 5
MaxTopicLen == 100

ConceptMarkers == <<"key concept", "main concept", "concepts:">>
ObjectiveMarkers == <<"learning objective", "objective", "students will", "goal">>
PriorMarkers == <<"prior knowledge", "prerequisite">>
RealWorldMarkers == <<"real-world", "real world", "application", "connection">>
VocabMarkers == <<"vocabulary", "vocab", "terms">>

\* line.strip() is truthy and the line does not start with a blank or a bullet
Unindented(line) == Strip(line) # "" /\ ~StartsWithAny(line, BulletStart)

Step(inside, items, error) == [inside |-> inside, items |-> items, error |-> error]

\* a body that goes on to the leaving test and the extraction after a marker line
KeyConceptsBodyFallThrough(line, inside) ==
    LET line_lower == Strip(Lower(line))
        entered == inside \/ ContainsAny(line_lower, ConceptMarkers)
        check   == entered /\ Unindented(line)
        leaving == check /\ (Contains(line, ":") \/ Head(line) \in UpperSet)
        still   == entered /\ ~leaving
        concept == Cleaned(line)
    IN  Step(still,
             IF still /\ Strip(line) # "" /\ concept # "" /\ Len(concept) > MinItemLen
             THEN <<concept>> ELSE <<>>,
             FALSE)

\* _extract_key_concepts, the body of `for line in lines`
KeyConceptsBody(line, inside) ==
    LET line_lower == Strip(Lower(line))
        check   == inside /\ Unindented(line)
        \* line[0] of an empty line is an IndexError
        error   == check /\ ~Contains(line, ":") /\ line = ""
        leaving == check /\ (Contains(line, ":") \/ Head(line) \in UpperSet)
        still   == inside /\ ~leaving
        concept == Cleaned(line)
    IN  IF ContainsAny(line_lower, ConceptMarkers) THEN Step(TRUE, <<>>, FALSE)
        ELSE IF error THEN Step(inside, <<>>, TRUE)
        ELSE Step(still,
                  IF still /\ Strip(line) # "" /\ concept # "" /\ Len(concept) > MinItemLen
                  THEN <<concept>> ELSE <<>>,
                  FALSE)

\* a body that keeps objectives as short as the items of the other sections
ObjectivesBodyShortItems(line, inside) ==
    LET line_lower == Strip(Lower(line))
        marker  == ContainsAny(line_lower, ObjectiveMarkers)
        entered == inside \/ marker
        check   == entered /\ Unindented(line)
        error   == check /\ ~Contains(line, ":") /\ line = ""
        leaving == check /\ (\/ Contains(line, ":")
                             \/ (Head(line) \in UpperSet /\ ~Contains(line_lower, "objective")))
        still   == entered /\ ~leaving
        objective == Cleaned(line)
    IN  IF marker /\ Contains(line, ":") THEN Step(TRUE, <<>>, FALSE)
        ELSE IF error THEN Step(entered, <<>>, TRUE)
        ELSE Step(still,
                  IF still /\ Strip(line) # "" /\ objective # "" /\ Len(objective) > MinItemLen
                  THEN <<objective>> ELSE <<>>,
                  FALSE)

\* _extract_objectives, the body of `for line in lines`
ObjectivesBody(line, inside) ==
    LET line_lower == Strip(Lower(line))
        marker  == ContainsAny(line_lower, ObjectiveMarkers)
        entered == inside \/ marker
        check   == entered /\ Unindented(line)
        error   == check /\ ~Contains(line, ":") /\ line = ""
        leaving == check /\ (\/ Contains(line, ":")
                             \/ (Head(line) \in UpperSet /\ ~Contains(line_lower, "objective")))
        still   == entered /\ ~leaving
        objective == Cleaned(line)
    IN  IF marker /\ Contains(line, ":") THEN Step(TRUE, <<>>, FALSE)
        ELSE IF error THEN Step(entered, <<>>, TRUE)
        ELSE Step(still,
                  IF still /\ Strip(line) # "" /\ objective # "" /\ Len(objective) > MinObjectiveLen
                  THEN <<objective>> ELSE <<>>,
                  FALSE)

\* a body that also leaves the section at an unindented line with a capital first letter
SectionBodyCapitalLeaves(markers, line, inside) ==
    LET line_lower == Lower(line)
        item == Cleaned(line)
    IN  IF ContainsAny(line_lower, markers) THEN Step(TRUE, <<>>, FALSE)
        ELSE IF ~inside THEN Step(FALSE, <<>>, FALSE)
        ELSE IF Unindented(line)
        THEN Step(~(Contains(line, ":") \/ Char(line, 1) \in UpperSet), <<>>, FALSE)
        ELSE Step(TRUE,
                  IF Strip(line) # "" /\ item # "" /\ Len(item) > MinItemLen
                  THEN <<item>> ELSE <<>>,
                  FALSE)

\* the body shared, marker list apart, by _extract_prior_knowledge and _extract_real_world
SectionBody(markers, line, inside) ==
    LET line_lower == Lower(line)
        item == Cleaned(line)
    IN  IF ContainsAny(line_lower, markers) THEN Step(TRUE, <<>>, FALSE)
        ELSE IF ~inside THEN Step(FALSE, <<>>, FALSE)
        ELSE IF Unindented(line)
        THEN Step(~Contains(line, ":"), <<>>, FALSE)
        ELSE Step(TRUE,
                  IF Strip(line) # "" /\ item # "" /\ Len(item) > MinItemLen
                  THEN <<item>> ELSE <<>>,
                  FALSE)

\* _extract_prior_knowledge, the body of `for line in lines`
PriorKnowledgeBody(line, inside) == SectionBody(PriorMarkers, line, inside)

\* _extract_real_world, the body of `for line in lines`
RealWorldBody(line, inside) == SectionBody(RealWorldMarkers, line, inside)

\* [term.strip() for term in terms if term.strip()]
StripAll(terms) == NonEmpty([n \in 1..Len(terms) |-> Strip(terms[n])])

\* line.split(':', 1)[1]
AfterFirstColon(line) == Mid(line, FirstOf(line, {":"}) + 1, Len(line))

\* an extraction that splits the terms at commas only
VocabularyBodyCommasOnly(line) ==
    LET line_lower == Lower(line)
    IN  IF ContainsAny(line_lower, VocabMarkers) /\ Contains(line, ":")
        THEN StripAll(SplitAt(AfterFirstColon(line), {","}))
        ELSE <<>>

\* _extract_vocabulary, the body of `for line in lines`: the terms the line adds
VocabularyBody(line) ==
    LET line_lower == Lower(line)
    IN  IF ContainsAny(line_lower, VocabMarkers) /\ Contains(line, ":")
        THEN StripAll(SplitAt(AfterFirstColon(line), {",", ";"}))
        ELSE <<>>

\* the character class of r'^[\d\.\)\-bullet*\s]+'
TopicClass == DigitSet \cup SpaceSet \cup {".", ")", "-", Bullet, "*"}

\* _extract_topics, the body of `for line in lines`: the topics the line adds
TopicsBody(line) ==
    LET line_stripped == Strip(line)
        topic == DropLead(line_stripped, TopicClass)
    IN  IF /\ line_stripped # ""
           /\ (Head(line_stripped) \in DigitSet \/ StartsWithAny(line_stripped, {"-", Bullet, "*"}))
           /\ topic # "" /\ Len(topic) > MinTopicLen /\ Len(topic) < MaxTopicLen
        THEN <<topic>> ELSE <<>>

\* the slices of the return statements
ConceptsCap == 10
ObjectivesCap == 8
VocabCap == 15
TopicsCap == 10
PriorCap == 8
ConnectionsCap == 8

-----------------------------------------------------------------------------
(* Rendering: str(int), str(bool) and f"{x:.1f}" of a quotient of ints.    *)

\* str(n) of a natural number
RECURSIVE IntToStr(_)
IntToStr(n) ==
    IF n < 10 THEN Char(DigitChars, n + 1)
    ELSE IntToStr(n \div 10) \o Char(DigitChars, (n % 10) + 1)

\* str(b) of a bool
BoolToStr(b) == IF b THEN "True" ELSE "False"

\* ', '.join(xs)
RECURSIVE JoinComma(_)
JoinComma(xs) ==
    IF xs = <<>> THEN ""
    ELSE IF Len(xs) = 1 THEN xs[1]
    ELSE xs[1] \o ", " \o JoinComma(Tail(xs))

\* the number of significand bits of a float
FloatBits == 53

\* The float a / b (a, b > 0) against the exact quotient: "exact", "up" or "down".
\* r / d is the quotient scaled into [1, 2); the significand's bits come from long
\* division, and what is left after the last one decides the rounding (ties to even).
RECURSIVE FloatRounding(_, _, _, _)
FloatRounding(r, d, bits, last) ==
    IF bits = FloatBits
    THEN IF r = 0 THEN "exact"
         ELSE IF 2 * r > d THEN "up"
         ELSE IF 2 * r < d THEN "down"
         ELSE IF last = 1 THEN "up" ELSE "down"
    ELSE IF 2 * r >= d THEN FloatRounding(2 * r - d, d, bits + 1, 1)
    ELSE FloatRounding(2 * r, d, bits + 1, 0)

RECURSIVE ScaledRounding(_, _)
ScaledRounding(a, b) ==
    IF a < b THEN ScaledRounding(2 * a, b)
    ELSE IF a >= 2 * b THEN ScaledRounding(a, 2 * b)
    ELSE FloatRounding(a - b, b, 1, 1)

\* round(10 * a / b) as f"{a / b:.1f}" rounds it: the float's exact value decides a tie
Tenths(a, b) ==
    LET t == (10 * a) \div b
        r == 10 * a - t * b
    IN  IF 2 * r < b THEN t
        ELSE IF 2 * r > b THEN t + 1
        ELSE CASE ScaledRounding(a, b) = "up" -> t + 1
               [] ScaledRounding(a, b) = "down" -> t
               [] OTHER -> IF t % 2 = 0 THEN t ELSE t + 1

\* f"{a / b:.1f}", and f"{0:.1f}" when a = 0
Format1f(a, b) ==
    LET t == IF a = 0 THEN 0 ELSE Tenths(a, b)
    IN  IntToStr(t \div 10) \o "." \o IntToStr(t % 10)

-----------------------------------------------------------------------------
(* GradeLevelAnalyzer.run                                                  *)

\* sum(len(word) for word in words)
RECURSIVE SumLen(_)
SumLen(ws) == IF ws = <<>> THEN 0 ELSE Len(Head(ws)) + SumLen(Tail(ws))

\* what a division by zero raises, in place of a quotient
ZeroDivisionError == [num |-> 0, den |-> 0]

\* a / b as the pair it is the quotient of; b = 0 raises ZeroDivisionError
Divide(a, b) == IF b = 0 THEN ZeroDivisionError ELSE [num |-> a, den |-> b]

\* the literal 0 of the conditional expressions
Zero == [num |-> 0, den |-> 1]

\* a word average that divides whatever the list of words holds
AvgWordLengthUnguarded(words) == Divide(SumLen(words), Len(words))

\* sum(len(word) for word in words) / len(words) if words else 0
AvgWordLength(words) == IF words # <<>> THEN Divide(SumLen(words), Len(words)) ELSE Zero

\* a sentence average over the segments that are not blank
AvgSentenceLengthNonBlank(words, sentences) ==
    LET full == SelectSeq(sentences, LAMBDA x : Strip(x) # "")
    IN  IF full # <<>> THEN Divide(Len(words), Len(full)) ELSE Zero

\* len(words) / len(sentences) if sentences else 0
AvgSentenceLength(words, sentences) ==
    IF sentences # <<>> THEN Divide(Len(words), Len(sentences)) ELSE Zero

\* q < tenths / 10, for q a quotient and tenths a literal such as 4.5 written 45
LessThan(q, tenths) == 10 * q.num < tenths * q.den

\* a scoring whose brackets accept a text on either of their conditions
ClassifyEither(word_avg, sentence_avg) ==
    IF LessThan(word_avg, 45) \/ LessThan(sentence_avg, 100)
    THEN [grade_range |-> "Elementary (K-5)", complexity |-> "Low"]
    ELSE IF LessThan(word_avg, 55) \/ LessThan(sentence_avg, 150)
    THEN [grade_range |-> "Middle School (6-8)", complexity |-> "Medium"]
    ELSE [grade_range |-> "High School+ (9-12+)", complexity |-> "High"]

\* the if/elif/else of the complexity scoring
Classify(word_avg, sentence_avg) ==
    IF LessThan(word_avg, 45) /\ LessThan(sentence_avg, 100)
    THEN [grade_range |-> "Elementary (K-5)", complexity |-> "Low"]
    ELSE IF LessThan(word_avg, 55) /\ LessThan(sentence_avg, 150)
    THEN [grade_range |-> "Middle School (6-8)", complexity |-> "Medium"]
    ELSE [grade_range |-> "High School+ (9-12+)", complexity |-> "High"]

\* the locals of GradeLevelAnalyzer.run(text) when it reaches its return
GradeLevelLocals(text) ==
    LET words == Words(text)
        sentences == SplitAt(text, {"."})
    IN  [words |-> words,
         sentences |-> sentences,
         avg_word_length |-> AvgWordLength(words),
         avg_sentence_length |-> AvgSentenceLength(words, sentences)]

\* the string GradeLevelAnalyzer.run builds, one piece per `result +=`
GradeLevelReport(loc) ==
    LET c == Classify(loc.avg_word_length, loc.avg_sentence_length)
    IN  << "Content Complexity Analysis:\n",
           "  @ Suggested Grade Range: " \o c.grade_range \o "\n",
           "  @ Complexity Level: " \o c.complexity \o "\n",
           "  @ Average Word Length: "
               \o Format1f(loc.avg_word_length.num, loc.avg_word_length.den) \o " characters\n",
           "  @ Average Sentence Length: "
               \o Format1f(loc.avg_sentence_length.num, loc.avg_sentence_length.den) \o " words\n" >>

-----------------------------------------------------------------------------
(* NotesAnalysisTool.run: content statistics and the rendered report.      *)

\* the "content_stats" entry of the dict
ContentStats(text) ==
    [total_words    |-> Len(Words(text)),
     total_lines    |-> Len(SplitAt(text, {"\n"})),
     has_objectives |-> Contains(Lower(text), "objective"),
     has_vocabulary |-> Contains(Lower(text), "vocabulary") \/ Contains(Lower(text), "vocab"),
     has_standards  |-> Contains(Lower(text), "standard")]

\* the dict before any helper has returned
NoAnalysis ==
    [subject |-> "", grade_level |-> "", key_concepts |-> <<>>,
     learning_objectives |-> <<>>, vocabulary |-> <<>>, topics |-> <<>>,
     prior_knowledge |-> <<>>, real_world_connections |-> <<>>,
     content_stats |-> [total_words |-> 0, total_lines |-> 0, has_objectives |-> FALSE,
                        has_vocabulary |-> FALSE, has_standards |-> FALSE]]

\* if items: header, a bullet line per item, a blank line
BulletSection(header, items) ==
    IF items = <<>> THEN <<>>
    ELSE <<header>> \o [n \in 1..Len(items) |-> "  @ " \o items[n] \o "\n"] \o <<"\n">>

\* if analysis['vocabulary']: one line of the terms joined by ', '
VocabularySection(terms) ==
    IF terms = <<>> THEN <<>>
    ELSE <<"Vocabulary Terms: " \o JoinComma(terms) \o "\n\n">>

\* a report that puts the objectives before the key concepts
RenderObjectivesFirst(a) ==
    << "=== TEACHING NOTES ANALYSIS ===\n\n",
       "Subject Area: " \o a.subject \o "\n",
       "Grade Level: " \o a.grade_level \o "\n\n" >>
    \o BulletSection("Learning Objectives Found:\n", a.learning_objectives)
    \o BulletSection("Key Concepts:\n", a.key_concepts)
    \o VocabularySection(a.vocabulary)
    \o BulletSection("Prior Knowledge Required:\n", a.prior_knowledge)
    \o BulletSection("Real-World Connections:\n", a.real_world_connections)
    \o << "Content Statistics:\n",
          "  @ Total Words: " \o IntToStr(a.content_stats.total_words) \o "\n",
          "  @ Has Objectives: " \o BoolToStr(a.content_stats.has_objectives) \o "\n",
          "  @ Has Vocabulary: " \o BoolToStr(a.content_stats.has_vocabulary) \o "\n" >>

\* the string NotesAnalysisTool.run builds, one piece per `result +=`
Render(a) ==
    << "=== TEACHING NOTES ANALYSIS ===\n\n",
       "Subject Area: " \o a.subject \o "\n",
       "Grade Level: " \o a.grade_level \o "\n\n" >>
    \o BulletSection("Key Concepts:\n", a.key_concepts)
    \o BulletSection("Learning Objectives Found:\n", a.learning_objectives)
    \o VocabularySection(a.vocabulary)
    \o BulletSection("Prior Knowledge Required:\n", a.prior_knowledge)
    \o BulletSection("Real-World Connections:\n", a.real_world_connections)
    \o << "Content Statistics:\n",
          "  @ Total Words: " \o IntToStr(a.content_stats.total_words) \o "\n",
          "  @ Has Objectives: " \o BoolToStr(a.content_stats.has_objectives) \o "\n",
          "  @ Has Vocabulary: " \o BoolToStr(a.content_stats.has_vocabulary) \o "\n" >>

-----------------------------------------------------------------------------
(* The state machine.                                                      *)

subjectVars   == <<subject_scores>>
conceptVars   == <<in_concepts_section, concepts>>
objectiveVars == <<in_objectives_section, objectives>>
priorVars     == <<in_prior_section, prior_knowledge>>
realworldVars == <<in_realworld_section, connections>>
gradeVars     == <<avg_word_length, avg_sentence_length, grade_range, complexity>>
callVars      == <<tool, notes>>
loopVars      == <<lines, i>>

\* run() has not asked for the confirmation; no stripped answer holds a line feed
NoAnswer == "\n"

Init ==
    /\ pc = "idle" /\ tool = "none" /\ notes = ""
    /\ lines = <<>> /\ i = 0
    /\ subject_scores = <<>>
    /\ in_concepts_section = FALSE /\ concepts = <<>>
    /\ in_objectives_section = FALSE /\ objectives = <<>>
    /\ vocab = <<>> /\ topics = <<>>
    /\ in_prior_section = FALSE /\ prior_knowledge = <<>>
    /\ in_realworld_section = FALSE /\ connections = <<>>
    /\ analysis = NoAnalysis /\ result = <<>>
    /\ avg_word_length = Zero /\ avg_sentence_length = Zero
    /\ grade_range = "" /\ complexity = ""
    /\ raised = FALSE /\ calls = <<>> /\ returned = {}
    /\ main_pc = "idle" /\ api_key = "" /\ argv = <<>> /\ typed = <<>>
    /\ input_lines = <<>> /\ empty_line_count = 0 /\ main_notes = "" /\ confirm = NoAnswer
    /\ kickoff = "no" /\ output_file = "absent" /\ exit_status = -1

\* a call of NotesAnalysisTool.run(text) begins
NotesRun(text) ==
    /\ pc \in {"idle", "done"}
    /\ tool' = "notes" /\ notes' = text
    /\ analysis' = NoAnalysis /\ result' = <<>> /\ raised' = FALSE
    /\ calls' = Append(calls, <<"notes", text>>)
    /\ pc' = "subject"
    /\ UNCHANGED <<mainVars, loopVars, subjectVars, conceptVars, objectiveVars, vocab, topics,
                   priorVars, realworldVars, gradeVars, returned>>

\* "subject": self._identify_subject(notes)
StepIdentifySubject ==
    /\ pc = "subject"
    /\ subject_scores' = SubjectScores(subject_keywords, Lower(notes))
    /\ analysis' = [analysis EXCEPT !.subject = SubjectOf(subject_scores')]
    /\ pc' = "grade_level"
    /\ UNCHANGED <<mainVars, callVars, loopVars, conceptVars, objectiveVars, vocab, topics,
                   priorVars, realworldVars, gradeVars, result, raised, calls, returned>>

\* "grade_level": self._extract_grade_level(notes)
StepExtractGradeLevel ==
    /\ pc = "grade_level"
    /\ analysis' = [analysis EXCEPT !.grade_level = ExtractGradeLevel(notes)]
    /\ pc' = "key_concepts"
    /\ UNCHANGED <<mainVars, callVars, loopVars, subjectVars, conceptVars, objectiveVars, vocab, topics,
                   priorVars, realworldVars, gradeVars, result, raised, calls, returned>>

\* a helper's loop begins: lines = notes.split('\n'), and the loop stands before its first line
EnterLoop(here, loop) ==
    /\ pc = here
    /\ lines' = SplitAt(notes, {"\n"})
    /\ i' = 1
    /\ pc' = loop

\* an iteration of a helper's loop ends: on to the next line, or out of run() with the exception
LeaveLine(error) ==
    /\ i' = i + 1
    /\ raised' = error
    /\ pc' = IF error THEN "done" ELSE pc

\* an entry that finds the section flag as the last call left it
EnterKeyConceptsStale ==
    /\ EnterLoop("key_concepts", "key_concepts_loop")
    /\ concepts' = <<>>
    /\ in_concepts_section' = in_concepts_section
    /\ UNCHANGED <<mainVars, callVars, subjectVars, objectiveVars, vocab, topics, priorVars,
                   realworldVars, gradeVars, analysis, result, raised, calls, returned>>

\* _extract_key_concepts
EnterKeyConcepts ==
    /\ EnterLoop("key_concepts", "key_concepts_loop")
    /\ concepts' = <<>>
    /\ in_concepts_section' = FALSE
    /\ UNCHANGED <<mainVars, callVars, subjectVars, objectiveVars, vocab, topics, priorVars,
                   realworldVars, gradeVars, analysis, result, raised, calls, returned>>

LineKeyConcepts ==
    /\ pc = "key_concepts_loop" /\ i <= Len(lines)
    /\ LET step == KeyConceptsBody(lines[i], in_concepts_section)
       IN  /\ in_concepts_section' = step.inside
           /\ concepts' = concepts \o step.items
           /\ LeaveLine(step.error)
    /\ UNCHANGED <<mainVars, callVars, lines, subjectVars, objectiveVars, vocab, topics, priorVars,
                   realworldVars, gradeVars, analysis, result, calls, returned>>

ReturnKeyConcepts ==
    /\ pc = "key_concepts_loop" /\ i > Len(lines)
    /\ analysis' = [analysis EXCEPT !.key_concepts = Take(concepts, ConceptsCap)]
    /\ pc' = "learning_objectives"
    /\ UNCHANGED <<mainVars, callVars, loopVars, subjectVars, conceptVars, objectiveVars, vocab, topics,
                   priorVars, realworldVars, gradeVars, result, raised, calls, returned>>

\* _extract_objectives
EnterObjectives ==
    /\ EnterLoop("learning_objectives", "learning_objectives_loop")
    /\ objectives' = <<>>
    /\ in_objectives_section' = FALSE
    /\ UNCHANGED <<mainVars, callVars, subjectVars, conceptVars, vocab, topics, priorVars,
                   realworldVars, gradeVars, analysis, result, raised, calls, returned>>

LineObjectives ==
    /\ pc = "learning_objectives_loop" /\ i <= Len(lines)
    /\ LET step == ObjectivesBody(lines[i], in_objectives_section)
       IN  /\ in_objectives_section' = step.inside
           /\ objectives' = objectives \o step.items
           /\ LeaveLine(step.error)
    /\ UNCHANGED <<mainVars, callVars, lines, subjectVars, conceptVars, vocab, topics, priorVars,
                   realworldVars, gradeVars, analysis, result, calls, returned>>

ReturnObjectives ==
    /\ pc = "learning_objectives_loop" /\ i > Len(lines)
    /\ analysis' = [analysis EXCEPT !.learning_objectives = Take(objectives, ObjectivesCap)]
    /\ pc' = "vocabulary"
    /\ UNCHANGED <<mainVars, callVars, loopVars, subjectVars, conceptVars, objectiveVars, vocab, topics,
                   priorVars, realworldVars, gradeVars, result, raised, calls, returned>>

\* _extract_vocabulary
EnterVocabulary ==
    /\ EnterLoop("vocabulary", "vocabulary_loop")
    /\ vocab' = <<>>
    /\ UNCHANGED <<mainVars, callVars, subjectVars, conceptVars, objectiveVars, topics, priorVars,
                   realworldVars, gradeVars, analysis, result, raised, calls, returned>>

LineVocabulary ==
    /\ pc = "vocabulary_loop" /\ i <= Len(lines)
    /\ vocab' = vocab \o VocabularyBody(lines[i])
    /\ LeaveLine(FALSE)
    /\ UNCHANGED <<mainVars, callVars, lines, subjectVars, conceptVars, objectiveVars, topics, priorVars,
                   realworldVars, gradeVars, analysis, result, calls, returned>>

ReturnVocabulary ==
    /\ pc = "vocabulary_loop" /\ i > Len(lines)
    /\ analysis' = [analysis EXCEPT !.vocabulary = Take(vocab, VocabCap)]
    /\ pc' = "topics"
    /\ UNCHANGED <<mainVars, callVars, loopVars, subjectVars, conceptVars, objectiveVars, vocab, topics,
                   priorVars, realworldVars, gradeVars, result, raised, calls, returned>>

\* _extract_topics
EnterTopics ==
    /\ EnterLoop("topics", "topics_loop")
    /\ topics' = <<>>
    /\ UNCHANGED <<mainVars, callVars, subjectVars, conceptVars, objectiveVars, vocab, priorVars,
                   realworldVars, gradeVars, analysis, result, raised, calls, returned>>

LineTopics ==
    /\ pc = "topics_loop" /\ i <= Len(lines)
    /\ topics' = topics \o TopicsBody(lines[i])
    /\ LeaveLine(FALSE)
    /\ UNCHANGED <<mainVars, callVars, lines, subjectVars, conceptVars, objectiveVars, vocab, priorVars,
                   realworldVars, gradeVars, analysis, result, calls, returned>>

ReturnTopics ==
    /\ pc = "topics_loop" /\ i > Len(lines)
    /\ analysis' = [analysis EXCEPT !.topics = Take(topics, TopicsCap)]
    /\ pc' = "prior_knowledge"
    /\ UNCHANGED <<mainVars, callVars, loopVars, subjectVars, conceptVars, objectiveVars, vocab, topics,
                   priorVars, realworldVars, gradeVars, result, raised, calls, returned>>

\* _extract_prior_knowledge
EnterPriorKnowledge ==
    /\ EnterLoop("prior_knowledge", "prior_knowledge_loop")
    /\ prior_knowledge' = <<>>
    /\ in_prior_section' = FALSE
    /\ UNCHANGED <<mainVars, callVars, subjectVars, conceptVars, objectiveVars, vocab, topics,
                   realworldVars, gradeVars, analysis, result, raised, calls, returned>>

LinePriorKnowledge ==
    /\ pc = "prior_knowledge_loop" /\ i <= Len(lines)
    /\ LET step == PriorKnowledgeBody(lines[i], in_prior_section)
       IN  /\ in_prior_section' = step.inside
           /\ prior_knowledge' = prior_knowledge \o step.items
           /\ LeaveLine(step.error)
    /\ UNCHANGED <<mainVars, callVars, lines, subjectVars, conceptVars, objectiveVars, vocab, topics,
                   realworldVars, gradeVars, analysis, result, calls, returned>>

ReturnPriorKnowledge ==
    /\ pc = "prior_knowledge_loop" /\ i > Len(lines)
    /\ analysis' = [analysis EXCEPT !.prior_knowledge = Take(prior_knowledge, PriorCap)]
    /\ pc' = "real_world_connections"
    /\ UNCHANGED <<mainVars, callVars, loopVars, subjectVars, conceptVars, objectiveVars, vocab, topics,
                   priorVars, realworldVars, gradeVars, result, raised, calls, returned>>

\* _extract_real_world
EnterRealWorld ==
    /\ EnterLoop("real_world_connections", "real_world_connections_loop")
    /\ connections' = <<>>
    /\ in_realworld_section' = FALSE
    /\ UNCHANGED <<mainVars, callVars, subjectVars, conceptVars, objectiveVars, vocab, topics,
                   priorVars, gradeVars, analysis, result, raised, calls, returned>>

LineRealWorld ==
    /\ pc = "real_world_connections_loop" /\ i <= Len(lines)
    /\ LET step == RealWorldBody(lines[i], in_realworld_section)
       IN  /\ in_realworld_section' = step.inside
           /\ connections' = connections \o step.items
           /\ LeaveLine(step.error)
    /\ UNCHANGED <<mainVars, callVars, lines, subjectVars, conceptVars, objectiveVars, vocab, topics,
                   priorVars, gradeVars, analysis, result, calls, returned>>

ReturnRealWorld ==
    /\ pc = "real_world_connections_loop" /\ i > Len(lines)
    /\ analysis' = [analysis EXCEPT !.real_world_connections = Take(connections, ConnectionsCap)]
    /\ pc' = "content_stats"
    /\ UNCHANGED <<mainVars, callVars, loopVars, subjectVars, conceptVars, objectiveVars, vocab, topics,
                   priorVars, realworldVars, gradeVars, result, raised, calls, returned>>

\* "content_stats": {...}, the last entry of the dict
StepContentStats ==
    /\ pc = "content_stats"
    /\ analysis' = [analysis EXCEPT !.content_stats = ContentStats(notes)]
    /\ pc' = "format"
    /\ UNCHANGED <<mainVars, callVars, loopVars, subjectVars, conceptVars, objectiveVars, vocab, topics,
                   priorVars, realworldVars, gradeVars, result, raised, calls, returned>>

\* the report is built and returned
StepFormat ==
    /\ pc = "format"
    /\ result' = Render(analysis)
    /\ returned' = returned \cup {<<tool, notes, result'>>}
    /\ pc' = "done"
    /\ UNCHANGED <<mainVars, callVars, loopVars, subjectVars, conceptVars, objectiveVars, vocab, topics,
                   priorVars, realworldVars, gradeVars, analysis, raised, calls>>

\* GradeLevelAnalyzer.run(text), from call to return
GradeLevelRun(text) ==
    /\ pc \in {"idle", "done"}
    /\ tool' = "grade" /\ notes' = text
    /\ calls' = Append(calls, <<"grade", text>>)
    /\ LET loc == GradeLevelLocals(text)
           error == ZeroDivisionError \in {loc.avg_word_length, loc.avg_sentence_length}
           c == Classify(loc.avg_word_length, loc.avg_sentence_length)
       IN  /\ raised' = error
           /\ avg_word_length' = IF error THEN avg_word_length ELSE loc.avg_word_length
           /\ avg_sentence_length' = IF error THEN avg_sentence_length ELSE loc.avg_sentence_length
           /\ grade_range' = IF error THEN grade_range ELSE c.grade_range
           /\ complexity' = IF error THEN complexity ELSE c.complexity
           /\ result' = IF error THEN <<>> ELSE GradeLevelReport(loc)
           /\ returned' = IF error THEN returned ELSE returned \cup {<<"grade", text, result'>>}
    /\ pc' = "done"
    /\ UNCHANGED <<mainVars, loopVars, subjectVars, conceptVars, objectiveVars, vocab, topics,
                   priorVars, realworldVars, analysis>>

\* every step of a call of NotesAnalysisTool.run after the call itself
NotesStep ==
    \/ StepIdentifySubject \/ StepExtractGradeLevel
    \/ EnterKeyConcepts \/ LineKeyConcepts \/ ReturnKeyConcepts
    \/ EnterObjectives \/ LineObjectives \/ ReturnObjectives
    \/ EnterVocabulary \/ LineVocabulary \/ ReturnVocabulary
    \/ EnterTopics \/ LineTopics \/ ReturnTopics
    \/ EnterPriorKnowledge \/ LinePriorKnowledge \/ ReturnPriorKnowledge
    \/ EnterRealWorld \/ LineRealWorld \/ ReturnRealWorld
    \/ StepContentStats \/ StepFormat

-----------------------------------------------------------------------------
(* Input texts and specifications.                                         *)

\* sep.join(ls)
RECURSIVE Join(_, _)
Join(ls, sep) ==
    IF ls = <<>> THEN ""
    ELSE IF Len(ls) = 1 THEN ls[1]
    ELSE ls[1] \o sep \o Join(Tail(ls), sep)

\* every sequence of at most n members of pool
SeqsUpTo(pool, n) == UNION {[1..k -> pool] : k \in 0..n}

\* a call of either tool on a text of T, on a tool that has not been called yet
Begin(T) == pc = "idle" /\ \E text \in T : NotesRun(text) \/ GradeLevelRun(text)

\* The notes of the main specification: a first line, then at most MaxLines further
\* lines, and the examples of the documentation.
MaxLines == 2

FirstLines ==
    { "Key Concepts:",
      "Learning Objectives:",
      "Prior Knowledge:",
      "Real-World Connections:",
      "Concepts: objectives, prerequisites, applications",
      "Goals and main concepts",
      "" }

FurtherLines ==
    { "- Students will explain light",
      "- Produces oxygen",
      "Vocabulary: mitosis, meiosis; cytokinesis",
      "Key concepts, prior knowledge, real world",
      "Summary",
      "" }

Examples ==
    { "Key Concepts:\n- Photosynthesis uses light\n- Produces oxygen\n\nGrade Level: 7th Grade",
      "The cat sat.",
      "Grade 7 high school" }

Inputs ==
    {Join(<<first>> \o rest, "\n") : first \in FirstLines, rest \in SeqsUpTo(FurtherLines, MaxLines)}
    \cup Examples

Next == Begin(Inputs) \/ NotesStep

Spec == Init /\ [][Next]_vars

-----------------------------------------------------------------------------
(* Notes that overflow the caps: a section header, then n items.           *)

MaxItems == 16

\* the k-th item, k in 1..26
ItemText(k) == "learn about item " \o Char(LowerChars, k)
TermText(k) == "term " \o Char(LowerChars, k)

CapHeaders ==
    {"Key Concepts:", "Learning Objectives:", "Prior Knowledge:", "Real-World Connections:"}

\* header, then n bullet lines
SectionNotes(header, n) == Join(<<header>> \o [k \in 1..n |-> "- " \o ItemText(k)], "\n")

\* n vocabulary lines of one term each
TermNotes(n) == Join([k \in 1..n |-> "vocab: " \o TermText(k)], "\n")

\* a header that opens all four sections, n items, then n vocabulary lines
FullNotes(n) ==
    SectionNotes("Concepts: objectives, prerequisites, applications", n) \o "\n" \o TermNotes(n)

CapsInputs ==
    {SectionNotes(h, n) : h \in CapHeaders, n \in 0..MaxItems}
    \cup {TermNotes(n) : n \in 0..MaxItems}
    \cup {FullNotes(n) : n \in 0..MaxItems}

NextCaps == Begin(CapsInputs) \/ NotesStep

SpecCaps == Init /\ [][NextCaps]_vars

\* xs is ys cut after its first n members, or all of ys when ys is shorter
IsCapped(xs, ys, n) ==
    /\ Len(xs) <= n
    /\ Len(xs) <= Len(ys)
    /\ \A k \in 1..Len(xs) : xs[k] = ys[k]
    /\ Len(ys) <= n => Len(xs) = Len(ys)

Smaller(a, b) == IF a < b THEN a ELSE b

\* C1: whenever NotesAnalysisTool.run has returned, each list of the analysis is at
\* most its cap long (10/8/15/10/8/8) and is the collected list cut at the cap; and
\* the collected items stand in line order: notes of a header and n item lines give
\* the first min(n, cap) items, in the order of their lines.
C1_ListsCapped ==
    (tool = "notes" /\ pc = "done" /\ ~raised) =>
        /\ IsCapped(analysis.key_concepts, concepts, 10)
        /\ IsCapped(analysis.learning_objectives, objectives, 8)
        /\ IsCapped(analysis.vocabulary, vocab, 15)
        /\ IsCapped(analysis.topics, topics, 10)
        /\ IsCapped(analysis.prior_knowledge, prior_knowledge, 8)
        /\ IsCapped(analysis.real_world_connections, connections, 8)
        /\ \A n \in 0..MaxItems :
            /\ notes = SectionNotes("Key Concepts:", n) =>
                 analysis.key_concepts = [k \in 1..Smaller(n, 10) |-> ItemText(k)]
            /\ notes = SectionNotes("Learning Objectives:", n) =>
                 analysis.learning_objectives = [k \in 1..Smaller(n, 8) |-> ItemText(k)]
            /\ notes = SectionNotes("Prior Knowledge:", n) =>
                 analysis.prior_knowledge = [k \in 1..Smaller(n, 8) |-> ItemText(k)]
            /\ notes = SectionNotes("Real-World Connections:", n) =>
                 analysis.real_world_connections = [k \in 1..Smaller(n, 8) |-> ItemText(k)]
            /\ notes = SectionNotes("Key Concepts:", n) =>
                 analysis.topics = [k \in 1..Smaller(n, 10) |-> ItemText(k)]
            /\ notes = TermNotes(n) =>
                 analysis.vocabulary = [k \in 1..Smaller(n, 15) |-> TermText(k)]
            /\ notes = FullNotes(n) =>
                 /\ analysis.key_concepts = [k \in 1..Smaller(n, 10) |-> ItemText(k)]
                 /\ analysis.learning_objectives = [k \in 1..Smaller(n, 8) |-> ItemText(k)]
                 /\ analysis.vocabulary = [k \in 1..Smaller(n, 15) |-> TermText(k)]
                 /\ analysis.topics = [k \in 1..Smaller(n, 10) |-> ItemText(k)]
                 /\ analysis.prior_knowledge = [k \in 1..Smaller(n, 8) |-> ItemText(k)]
                 /\ analysis.real_world_connections = [k \in 1..Smaller(n, 8) |-> ItemText(k)]

\* a call returned with each of the six scans having collected more than its cap
C1_Witness ==
    /\ tool = "notes" /\ pc = "done"
    /\ Len(concepts) > 10 /\ Len(analysis.key_concepts) = 10
    /\ Len(objectives) > 8 /\ Len(analysis.learning_objectives) = 8
    /\ Len(vocab) > 15 /\ Len(analysis.vocabulary) = 15
    /\ Len(topics) > 10 /\ Len(analysis.topics) = 10
    /\ Len(prior_knowledge) > 8 /\ Len(analysis.prior_knowledge) = 8
    /\ Len(connections) > 8 /\ Len(analysis.real_world_connections) = 8

-----------------------------------------------------------------------------
(* Notes for the subject classifier: words of the keyword table.           *)

MaxWords == 3

SubjectWords ==
    { "Equation",       \* Mathematics, in upper case
      "cell",           \* Science
      "grammar",        \* English/Language Arts
      "award",          \* Social Studies/History: holds "war"
      "composition",    \* Music and Art
      "fitness",        \* Physical Education
      "code",           \* Computer Science
      "variable" }      \* Mathematics and Computer Science

SubjectInputs == {Join(ws, " ") : ws \in SeqsUpTo(SubjectWords, MaxWords)}

NextSubject == Begin(SubjectInputs) \/ NotesStep

SpecSubject == Init /\ [][NextSubject]_vars

\* the scores of the categories of the table, in the table's order, for a text
CategoryScores(text) ==
    [n \in 1..Len(subject_keywords) |-> Score(subject_keywords[n].keywords, Lower(text))]

\* the order of declaration the specification gives
DeclaredOrder ==
    << "Mathematics", "Science", "English/Language Arts", "Social Studies/History",
       "Music", "Art", "Physical Education", "Computer Science" >>

\* _identify_subject has just returned
SubjectKnown == tool = "notes" /\ pc = "grade_level"

\* subject is the category declared earliest among those of the highest score
EarliestOfHighest(subject, score) ==
    \E n \in 1..Len(DeclaredOrder) :
        /\ subject = DeclaredOrder[n]
        /\ \A m \in 1..Len(DeclaredOrder) : score[m] <= score[n]
        /\ \A m \in 1..(n - 1) : score[m] < score[n]

\* C2: the subject returned is the category declared earliest among those of the
\* highest score, in the order Mathematics, Science, English/Language Arts, Social
\* Studies/History, Music, Art, Physical Education, Computer Science; and it is
\* "General/Multi-Subject" when every category scores zero.
C2_EarliestOfHighest ==
    SubjectKnown =>
        IF \A n \in 1..Len(DeclaredOrder) : CategoryScores(notes)[n] = 0
        THEN analysis.subject = "General/Multi-Subject"
        ELSE EarliestOfHighest(analysis.subject, CategoryScores(notes))

\* two categories, neither of them the first of the table, share the highest score
TieBelowFirst(score) ==
    \E n \in 2..Len(DeclaredOrder), m \in 3..Len(DeclaredOrder) :
        /\ n < m
        /\ score[n] = score[m]
        /\ \A k \in 1..Len(DeclaredOrder) : score[k] <= score[n]
        /\ \A k \in 1..(n - 1) : score[k] < score[n]

\* the subject was identified on such a tie
C2_Witness ==
    /\ SubjectKnown
    /\ TieBelowFirst(CategoryScores(notes))
    /\ analysis.subject # "General/Multi-Subject"

\* the entry of subject_scores for the n-th category is exactly score (no entry for 0)
HasScore(n, score) ==
    LET subject == subject_keywords[n].subject
        entries == {k \in 1..Len(subject_scores) : subject_scores[k][1] = subject}
    IN  IF score = 0 THEN entries = {}
        ELSE /\ Cardinality(entries) = 1
             /\ \A k \in entries : subject_scores[k][2] = score

\* the keywords of the n-th category that occur in the text at least once
KeywordsPresent(n, text) ==
    {j \in 1..Len(subject_keywords[n].keywords) :
        CountOccurrences(text, subject_keywords[n].keywords[j]) >= 1}

\* C3 (as amended): the score of a subject category in _identify_subject is the
\* number of its keywords that occur, case-insensitively, at least once in the
\* text; a keyword contributes 1 however often it occurs.
C3_ScoreCountsKeywordsPresent ==
    SubjectKnown =>
        \A n \in 1..Len(subject_keywords) :
            HasScore(n, Cardinality(KeywordsPresent(n, Lower(notes))))

\* C3 (as stated): the score of a subject category is the total number of
\* case-insensitive occurrences of its keywords: a keyword that occurs k times
\* contributes k.
C3_ScoreCountsOccurrences ==
    SubjectKnown =>
        \A n \in 1..Len(subject_keywords) :
            HasScore(n, SumOccurrences(subject_keywords[n].keywords, Lower(notes)))

\* the scores were computed for a text in which a keyword occurs more than once
\* next to a keyword of another category
C3_Witness ==
    /\ SubjectKnown
    /\ Len(subject_scores) >= 2
    /\ \E n \in 1..Len(subject_keywords) :
        \E j \in 1..Len(subject_keywords[n].keywords) :
            CountOccurrences(Lower(notes), subject_keywords[n].keywords[j]) >= 2

-----------------------------------------------------------------------------
(* Notes made of grade fragments, for _extract_grade_level.                *)

MaxFragments == 2

GradeFragments ==
    { "Grade 7", "3rd Grade", "Level: 9", "High School", "elementary",
      "Middle school", "college", "basic", "advanced", "Summary" }

GradeInputs == {Join(ws, " ") : ws \in SeqsUpTo(GradeFragments, MaxFragments)}

NextGrade == Begin(GradeInputs) \/ NotesStep

SpecGrade == Init /\ [][NextGrade]_vars

\* _extract_grade_level has just returned
GradeKnown == tool = "notes" /\ pc = "key_concepts"

\* the rules in the order the specification gives: whether the rule matches the
\* lower-cased text s, and what it yields
GradeRules(s) ==
    << [matches |-> \E p \in 1..Len(s) : GradeNAt(s, p) # "",
        yields  |-> "Grade " \o Search(1, s)],
       [matches |-> \E p \in 1..Len(s) : NthGradeAt(s, p) # "",
        yields  |-> "Grade " \o Search(2, s)],
       [matches |-> \E p \in 1..Len(s) : LevelNAt(s, p) # "",
        yields  |-> "Grade " \o Search(3, s)],
       [matches |-> ContainsAny(s, <<"elementary", "primary", "kindergarten">>),
        yields  |-> "K-5 (Elementary)"],
       [matches |-> ContainsAny(s, <<"middle school", "junior high">>),
        yields  |-> "6-8 (Middle School)"],
       [matches |-> ContainsAny(s, <<"high school", "secondary">>),
        yields  |-> "9-12 (High School)"],
       [matches |-> ContainsAny(s, <<"college", "university", "undergraduate">>),
        yields  |-> "College/University"],
       [matches |-> ContainsAny(s, <<"basic", "introduction", "simple", "beginner">>),
        yields  |-> "Elementary to Middle School (Est.)"],
       [matches |-> ContainsAny(s, <<"advanced", "complex", "in-depth">>),
        yields  |-> "High School to College (Est.)"],
       [matches |-> TRUE,
        yields  |-> "Not Specified (Grades 6-12 adaptable)"] >>

\* C4: _extract_grade_level returns the result of the first rule that matches, in
\* the order "grade N", "Nth grade", "level: N", elementary, middle school, high
\* school, college, basic words, advanced words, fallback, wherever the matches sit
\* in the text; a text with both "Grade 7" and "high school" yields "Grade 7".
C4_FirstRuleInOrder ==
    GradeKnown =>
        LET rules == GradeRules(Lower(notes))
        IN  /\ \E n \in 1..Len(rules) :
                /\ rules[n].matches
                /\ \A m \in 1..(n - 1) : ~rules[m].matches
                /\ analysis.grade_level = rules[n].yields
            /\ (Contains(notes, "Grade 7") /\ Contains(notes, "High School")
                    => analysis.grade_level = "Grade 7")

\* the grade was extracted from a text in which a bucket keyword comes before the
\* numeric pattern that decides
C4_Witness ==
    /\ GradeKnown
    /\ notes = "High School Grade 7"
    /\ analysis.grade_level = "Grade 7"

-----------------------------------------------------------------------------
(* Several calls on the same tool objects, one after the other.            *)

MaxCalls == 3

\* a further call of either tool, after a call has returned or raised
Again(T) ==
    /\ pc = "done" /\ Len(calls) < MaxCalls
    /\ \E text \in T : NotesRun(text) \/ GradeLevelRun(text)

TwiceInputs == { "", "- Produces oxygen", "Key Concepts:\n- Produces oxygen" }

NextTwice == Begin(TwiceInputs) \/ Again(TwiceInputs) \/ NotesStep

SpecTwice == Init /\ [][NextTwice]_vars

\* C7: calling NotesAnalysisTool.run or GradeLevelAnalyzer.run again with the same
\* text, in any order and between calls on other texts, returns the same report:
\* all the reports one tool has returned for one text are equal.
C7_SameInputSameReport ==
    \A a \in returned : \A b \in returned :
        (a[1] = b[1] /\ a[2] = b[2]) => a[3] = b[3]

\* a tool has returned for a text, then for another text, then for the first again
C7_Witness ==
    /\ pc = "done" /\ ~raised
    /\ Len(calls) = 3
    /\ calls[1] = calls[3] /\ calls[1][1] = calls[2][1] /\ calls[1][2] # calls[2][2]
    /\ calls[1] = <<"notes", "- Produces oxygen">>
    /\ \E r \in returned : r[1] = "notes" /\ r[2] = calls[2][2] /\ r[3] # result

\* the call that has just ended was on the empty string
EmptyDone == pc = "done" /\ notes = ""

\* C5: on the empty string neither analyzer raises; NotesAnalysisTool.run reports
\* subject "General/Multi-Subject", the not-specified grade string and six empty
\* lists, and GradeLevelAnalyzer.run computes average word length 0 and average
\* sentence length 0 without dividing by zero.
C5_EmptyInputDefaults ==
    EmptyDone =>
        /\ ~raised
        /\ tool = "notes" =>
            /\ analysis.subject = "General/Multi-Subject"
            /\ analysis.grade_level = "Not Specified (Grades 6-12 adaptable)"
            /\ analysis.key_concepts = <<>>
            /\ analysis.learning_objectives = <<>>
            /\ analysis.vocabulary = <<>>
            /\ analysis.topics = <<>>
            /\ analysis.prior_knowledge = <<>>
            /\ analysis.real_world_connections = <<>>
            /\ \E r \in returned : r = <<"notes", "", result>>
        /\ tool = "grade" =>
            /\ avg_word_length.num = 0 /\ avg_word_length.den > 0
            /\ avg_sentence_length.num = 0 /\ avg_sentence_length.den > 0
            /\ result[4] = "  @ Average Word Length: 0.0 characters\n"
            /\ result[5] = "  @ Average Sentence Length: 0.0 words\n"

\* both analyzers have returned on the empty string
C5_Witness ==
    /\ EmptyDone
    /\ \E r \in returned : r[1] = "notes" /\ r[2] = ""
    /\ \E r \in returned : r[1] = "grade" /\ r[2] = ""

-----------------------------------------------------------------------------
(* Texts of words of 4, 5 and 6 letters, for GradeLevelAnalyzer.           *)

\* the most words of a text
MaxRun == 16

\* n copies of word w
Repeat(w, n) == [k \in 1..n |-> w]

\* a words of 4 letters, b of 5 and c of 6, with a full stop after the last word or not
RunText(a, b, c, stop) ==
    Join(Repeat("tree", a) \o Repeat("plant", b) \o Repeat("leaves", c), " ")
        \o (IF stop THEN "." ELSE "")

\* the numbers of words of each length, MaxRun words at most, and the full stop
RunShapes ==
    {d \in (0..MaxRun) \X (0..MaxRun) \X (0..MaxRun) \X BOOLEAN : d[1] + d[2] + d[3] <= MaxRun}

ComplexityInputs == {RunText(d[1], d[2], d[3], d[4]) : d \in RunShapes}

\* a call of GradeLevelAnalyzer.run on a text of T
BeginGrade(T) == pc = "idle" /\ \E text \in T : GradeLevelRun(text)

NextComplexity == BeginGrade(ComplexityInputs)

SpecComplexity == Init /\ [][NextComplexity]_vars

\* GradeLevelAnalyzer.run has returned
ComplexityKnown == tool = "grade" /\ pc = "done" /\ ~raised

\* the brackets of the specification, on the averages the call computed
FirstBracket ==
    /\ 10 * avg_word_length.num < 45 * avg_word_length.den
    /\ avg_sentence_length.num < 10 * avg_sentence_length.den

SecondBracket ==
    /\ 10 * avg_word_length.num < 55 * avg_word_length.den
    /\ avg_sentence_length.num < 15 * avg_sentence_length.den

\* C6: GradeLevelAnalyzer classifies by joint thresholds in order: (Elementary, Low)
\* iff the word average is below 4.5 and the sentence average below 10; otherwise
\* (Middle School, Medium) iff they are below 5.5 and 15; otherwise (High School+,
\* High); the pair is always one of these three.
C6_JointThresholds ==
    ComplexityKnown =>
        LET pair == <<grade_range, complexity>>
        IN  /\ pair \in { <<"Elementary (K-5)", "Low">>,
                          <<"Middle School (6-8)", "Medium">>,
                          <<"High School+ (9-12+)", "High">> }
            /\ pair = <<"Elementary (K-5)", "Low">> <=> FirstBracket
            /\ pair = <<"Middle School (6-8)", "Medium">> <=> (~FirstBracket /\ SecondBracket)
            /\ pair = <<"High School+ (9-12+)", "High">> <=> (~FirstBracket /\ ~SecondBracket)
            /\ result[2] = "  @ Suggested Grade Range: " \o grade_range \o "\n"
            /\ result[3] = "  @ Complexity Level: " \o complexity \o "\n"

\* a text of short words and long sentences: the first bracket fails on the sentence
\* average alone, the second on it alone too, and the text is classified High
C6_Witness ==
    /\ ComplexityKnown
    /\ 10 * avg_word_length.num < 45 * avg_word_length.den
    /\ avg_sentence_length.num >= 15 * avg_sentence_length.den
    /\ complexity = "High"

-----------------------------------------------------------------------------
(* The parts of the rendered report.                                       *)

\* how each part of the report begins, in the order the specification gives
PartHeads ==
    << "Subject Area: ", "Grade Level: ", "Key Concepts:\n", "Learning Objectives Found:\n",
       "Vocabulary Terms: ", "Prior Knowledge Required:\n", "Real-World Connections:\n",
       "Content Statistics:\n" >>

\* the part a piece of the report begins: its place in PartHeads, 0 for any other piece
PartOf(piece) ==
    IF \E n \in 1..Len(PartHeads) : Mid(piece, 1, Len(PartHeads[n])) = PartHeads[n]
    THEN CHOOSE n \in 1..Len(PartHeads) : Mid(piece, 1, Len(PartHeads[n])) = PartHeads[n]
    ELSE 0

\* the parts of a report, in the order they appear in it
PartsOf(pieces) ==
    LET tags == [n \in 1..Len(pieces) |-> PartOf(pieces[n])]
    IN  SelectSeq(tags, LAMBDA t : t # 0)

\* NotesAnalysisTool.run has returned its report
ReportReturned == tool = "notes" /\ pc = "done" /\ ~raised

\* the lists of the five list sections, by the place of the section in PartHeads
ListOfPart ==
    [n \in 3..7 |-> CASE n = 3 -> analysis.key_concepts
                      [] n = 4 -> analysis.learning_objectives
                      [] n = 5 -> analysis.vocabulary
                      [] n = 6 -> analysis.prior_knowledge
                      [] n = 7 -> analysis.real_world_connections]

\* C8: the text rendered by NotesAnalysisTool.run lists its parts in the order
\* subject, grade level, key concepts, learning objectives, vocabulary, prior
\* knowledge, real-world connections, content statistics; subject, grade level and
\* content statistics always appear, and each of the five list sections appears
\* iff its list is non-empty.
C8_PartsInOrder ==
    ReportReturned =>
        LET parts == PartsOf(result)
            present == {parts[k] : k \in 1..Len(parts)}
        IN  /\ \A k \in 1..(Len(parts) - 1) : parts[k] < parts[k + 1]
            /\ {1, 2, 8} \subseteq present
            /\ \A n \in 3..7 : n \in present <=> ListOfPart[n] # <<>>

\* a report was returned with all five list sections in it
C8_Witness ==
    /\ ReportReturned
    /\ \A n \in 3..7 : ListOfPart[n] # <<>>
    /\ Len(PartsOf(result)) = 8

-----------------------------------------------------------------------------
(* Vocabulary lines built from their parts, each with the terms it holds.  *)

\* the most pieces after the colon of a built line
MaxTerms == 2

\* how a line begins, and whether that beginning holds a marker
VocabHeads ==
    { [text |-> "Vocabulary",   marker |-> TRUE],
      [text |-> "KEY TERMS",    marker |-> TRUE],
      [text |-> "- vocab list", marker |-> TRUE],
      [text |-> "Words",        marker |-> FALSE] }

\* a piece as it stands between the separators, and the term it holds ("" for none)
VocabPieces ==
    { [raw |-> " mitosis",   term |-> "mitosis"],
      [raw |-> "cell wall\t", term |-> "cell wall"],
      [raw |-> "  ",         term |-> ""] }

\* the pieces with "," and ";" in turn between them, beginning with first
RECURSIVE JoinTurns(_, _, _)
JoinTurns(pieces, first, second) ==
    IF pieces = <<>> THEN ""
    ELSE IF Len(pieces) = 1 THEN pieces[1].raw
    ELSE pieces[1].raw \o first \o JoinTurns(Tail(pieces), second, first)

\* the terms the pieces hold, in order
RECURSIVE TermsHeld(_)
TermsHeld(pieces) ==
    IF pieces = <<>> THEN <<>>
    ELSE (IF Head(pieces).term = "" THEN <<>> ELSE <<Head(pieces).term>>)
         \o TermsHeld(Tail(pieces))

\* a line built of a beginning, a colon or none, and pieces, with the terms to expect
BuiltLines ==
    { [text   |-> h.text \o (IF colon THEN ":" ELSE "") \o JoinTurns(ps, sep, IF sep = "," THEN ";" ELSE ","),
       expect |-> IF h.marker /\ colon THEN TermsHeld(ps) ELSE <<>>] :
        h \in VocabHeads, colon \in BOOLEAN,
        ps \in SeqsUpTo(VocabPieces, MaxTerms), sep \in {",", ";"} }

\* the example of the documentation
ExampleLine ==
    [text |-> "Vocabulary: mitosis, meiosis; cytokinesis",
     expect |-> <<"mitosis", "meiosis", "cytokinesis">>]

\* lines written out: a colon before the marker, a colon after the first
GivenLines ==
    { ExampleLine,
      [text |-> "Note: new vocab, see page 2",
       expect |-> <<"new vocab", "see page 2">>],
      [text |-> "Terms: ratio 1:2; scale",
       expect |-> <<"ratio 1:2", "scale">>] }

\* the notes: a line alone, or a built line with the example before or after it
VocabTable ==
    BuiltLines \cup GivenLines
    \cup { [text |-> ExampleLine.text \o "\n" \o b.text, expect |-> ExampleLine.expect \o b.expect] :
              b \in BuiltLines }
    \cup { [text |-> b.text \o "\n" \o ExampleLine.text, expect |-> b.expect \o ExampleLine.expect] :
              b \in BuiltLines }

VocabInputs == {e.text : e \in VocabTable}

NextVocab == Begin(VocabInputs) \/ NotesStep

SpecVocab == Init /\ [][NextVocab]_vars

\* _extract_vocabulary has just returned
VocabKnown == tool = "notes" /\ pc = "topics"

\* C9: for every line with "vocabulary", "vocab" or "terms" (in any case) and a
\* colon, the text after the first colon is split at commas and semicolons, each
\* piece is trimmed, empty pieces are dropped, and the pieces of all such lines are
\* accumulated in line order; a line with a marker and no colon, and a line without
\* a marker, contribute nothing.
C9_VocabularyTerms ==
    VocabKnown =>
        \A e \in VocabTable :
            e.text = notes => vocab = e.expect /\ analysis.vocabulary = e.expect

\* terms of two lines were accumulated, a blank piece among the pieces
C9_Witness ==
    /\ VocabKnown
    /\ notes = "Vocabulary: mitosis, meiosis; cytokinesis\nKEY TERMS:cell wall\t;  "
    /\ vocab = <<"mitosis", "meiosis", "cytokinesis", "cell wall">>

-----------------------------------------------------------------------------
(* Marker lines in the four section scanners.                              *)

\* the scanner at pc stands before a line that holds one of markers
AtMarkerLine(loop, markers) ==
    /\ pc = loop /\ i <= Len(lines)
    /\ ContainsAny(Lower(lines[i]), markers)

\* the step from a marker line leaves the scanner inside and its list as it was
ConceptsConsume ==
    AtMarkerLine("key_concepts_loop", ConceptMarkers)
        => in_concepts_section' /\ concepts' = concepts

PriorConsume ==
    AtMarkerLine("prior_knowledge_loop", PriorMarkers)
        => in_prior_section' /\ prior_knowledge' = prior_knowledge

RealWorldConsume ==
    AtMarkerLine("real_world_connections_loop", RealWorldMarkers)
        => in_realworld_section' /\ connections' = connections

ObjectivesConsume ==
    AtMarkerLine("learning_objectives_loop", ObjectiveMarkers)
        => in_objectives_section' /\ objectives' = objectives

ObjectivesConsumeWithColon ==
    (AtMarkerLine("learning_objectives_loop", ObjectiveMarkers) /\ Contains(lines[i], ":"))
        => in_objectives_section' /\ objectives' = objectives

\* C10 (as amended): in the key concepts, prior knowledge and real-world scanners a
\* line that contains one of the section's start markers moves the scanner to Inside
\* and is never emitted as an item, whatever else it contains; in the objectives
\* scanner this holds of the marker lines that contain a colon.
C10_MarkerLineConsumed ==
    [][ConceptsConsume /\ PriorConsume /\ RealWorldConsume /\ ObjectivesConsumeWithColon]_vars

\* C10 (as stated): in each of the four section scanners a line that contains one of
\* the section's start markers moves the scanner to Inside and is never emitted as
\* an item, whatever else it contains.
C10_EveryMarkerLineConsumed ==
    [][ConceptsConsume /\ PriorConsume /\ RealWorldConsume /\ ObjectivesConsume]_vars

\* all four scanners went over notes whose only line holds a marker of each, and a colon
C10_Witness ==
    /\ tool = "notes" /\ pc = "content_stats"
    /\ Len(lines) = 1
    /\ ContainsAny(Lower(lines[1]), ConceptMarkers)
    /\ ContainsAny(Lower(lines[1]), ObjectiveMarkers)
    /\ ContainsAny(Lower(lines[1]), PriorMarkers)
    /\ ContainsAny(Lower(lines[1]), RealWorldMarkers)
    /\ in_concepts_section /\ in_objectives_section /\ in_prior_section /\ in_realworld_section
    /\ concepts = <<>> /\ objectives = <<>> /\ prior_knowledge = <<>> /\ connections = <<>>

-----------------------------------------------------------------------------
(* Notes of one header that opens all four sections, and lines after it.   *)

\* the most lines after the header
MaxFollow == 3

\* a header with a marker of each of the four sections, and a colon
AllHeader == "Concepts: objectives, prerequisites, applications"

FollowLines ==
    { "- Produces oxygen gas",                                \* an item
      "Summary",                                              \* a capital, no colon
      "Notes: done",                                          \* a colon
      "see the graph",                                        \* neither, not indented
      "Main concepts and goals, prerequisites, connections" } \* markers, a capital, no colon

LeaveInputs == {Join(<<AllHeader>> \o rest, "\n") : rest \in SeqsUpTo(FollowLines, MaxFollow)}

NextLeave == Begin(LeaveInputs) \/ NotesStep

SpecLeave == Init /\ [][NextLeave]_vars

\* the scanner at pc stands, with its flag as given, before a line of the loop
AtLine(loop, inside) == pc = loop /\ i <= Len(lines) /\ inside

\* the line is not blank, does not start with a blank or a bullet, and holds a colon
\* or starts with a capital
EndsSection(line) ==
    /\ Strip(line) # ""
    /\ ~StartsWithAny(line, BulletStart)
    /\ (Contains(line, ":") \/ Char(line, 1) \in UpperSet)

\* Inside, at such a line: the step moves the scanner to Outside and emits nothing
ConceptsLeave ==
    (AtLine("key_concepts_loop", in_concepts_section) /\ EndsSection(lines[i]))
        => ~in_concepts_section' /\ concepts' = concepts

ObjectivesLeave ==
    (AtLine("learning_objectives_loop", in_objectives_section) /\ EndsSection(lines[i]))
        => ~in_objectives_section' /\ objectives' = objectives

PriorLeave ==
    (AtLine("prior_knowledge_loop", in_prior_section) /\ EndsSection(lines[i]))
        => ~in_prior_section' /\ prior_knowledge' = prior_knowledge

RealWorldLeave ==
    (AtLine("real_world_connections_loop", in_realworld_section) /\ EndsSection(lines[i]))
        => ~in_realworld_section' /\ connections' = connections

\* the same of the lines that hold no start marker of the section
ConceptsLeaveUnmarked ==
    (/\ AtLine("key_concepts_loop", in_concepts_section) /\ EndsSection(lines[i])
     /\ ~ContainsAny(Lower(lines[i]), ConceptMarkers))
        => ~in_concepts_section' /\ concepts' = concepts

ObjectivesLeaveUnmarked ==
    (/\ AtLine("learning_objectives_loop", in_objectives_section) /\ EndsSection(lines[i])
     /\ ~ContainsAny(Lower(lines[i]), ObjectiveMarkers))
        => ~in_objectives_section' /\ objectives' = objectives

\* prior knowledge and real-world: nothing is emitted, and the scanner moves to
\* Outside exactly when the line holds a colon
PriorLeaveAtColon ==
    (/\ AtLine("prior_knowledge_loop", in_prior_section) /\ EndsSection(lines[i])
     /\ ~ContainsAny(Lower(lines[i]), PriorMarkers))
        => /\ prior_knowledge' = prior_knowledge
           /\ in_prior_section' <=> ~Contains(lines[i], ":")

RealWorldLeaveAtColon ==
    (/\ AtLine("real_world_connections_loop", in_realworld_section) /\ EndsSection(lines[i])
     /\ ~ContainsAny(Lower(lines[i]), RealWorldMarkers))
        => /\ connections' = connections
           /\ in_realworld_section' <=> ~Contains(lines[i], ":")

\* Outside, at a line without a start marker: the scanner stays Outside and emits nothing
StaysOutside ==
    /\ (AtLine("key_concepts_loop", ~in_concepts_section)
            /\ ~ContainsAny(Lower(lines[i]), ConceptMarkers))
        => ~in_concepts_section' /\ concepts' = concepts
    /\ (AtLine("learning_objectives_loop", ~in_objectives_section)
            /\ ~ContainsAny(Lower(lines[i]), ObjectiveMarkers))
        => ~in_objectives_section' /\ objectives' = objectives
    /\ (AtLine("prior_knowledge_loop", ~in_prior_section)
            /\ ~ContainsAny(Lower(lines[i]), PriorMarkers))
        => ~in_prior_section' /\ prior_knowledge' = prior_knowledge
    /\ (AtLine("real_world_connections_loop", ~in_realworld_section)
            /\ ~ContainsAny(Lower(lines[i]), RealWorldMarkers))
        => ~in_realworld_section' /\ connections' = connections

\* C11 (as amended): in the key concepts and objectives scanners, while Inside, a
\* non-blank line without a start marker of the section that does not start with
\* space, tab, "-", the bullet or "*" and that contains a colon or starts with an
\* uppercase letter moves the scanner to Outside and is not emitted; in the prior
\* knowledge and real-world scanners such a line is not emitted either, and moves
\* the scanner to Outside only if it contains a colon; in all four, once Outside, no
\* line is emitted until another start-marker line is seen.
C11_SectionLeft ==
    [][/\ ConceptsLeaveUnmarked /\ ObjectivesLeaveUnmarked
       /\ PriorLeaveAtColon /\ RealWorldLeaveAtColon
       /\ StaysOutside]_vars

\* C11 (as stated): in each of the four scanners, while Inside, a non-blank line that
\* does not start with space, tab, "-", the bullet or "*" and that contains a colon
\* or starts with an uppercase letter moves the scanner to Outside and is not
\* emitted; after that no line is emitted until another start-marker line is seen.
C11_EverySectionLeft ==
    [][/\ ConceptsLeave /\ ObjectivesLeave /\ PriorLeave /\ RealWorldLeave
       /\ StaysOutside]_vars

\* all four scanners went over an item, a line with a capital and no colon, and the
\* item again: two of them stopped at the capital, two went on
C11_Witness ==
    /\ tool = "notes" /\ pc = "content_stats"
    /\ lines = <<AllHeader, "- Produces oxygen gas", "Summary", "- Produces oxygen gas">>
    /\ concepts = <<"Produces oxygen gas">>
    /\ objectives = <<"Produces oxygen gas">>
    /\ prior_knowledge = <<"Produces oxygen gas", "Produces oxygen gas">>
    /\ connections = <<"Produces oxygen gas", "Produces oxygen gas">>

-----------------------------------------------------------------------------
(* Notes of a first line and items of several lengths.                     *)

\* the most lines after the first
MaxItemLines == 2

\* a header of all four sections, and a line that opens none
ItemHeaders == {AllHeader, "Summary"}

ItemLines ==
    { "- Light",                       \* 5 characters
      "- Oxygen",                      \* 6
      "-- Sunlight 1",                 \* 10
      "\t* Chlorophyll \t",            \* 11, blanks after it
      "- Students will explain light", \* a marker of the objectives, no colon
      "see the graph",                 \* not indented
      "" }

ItemInputs ==
    {Join(<<first>> \o rest, "\n") : first \in ItemHeaders, rest \in SeqsUpTo(ItemLines, MaxItemLines)}

NextItems == Begin(ItemInputs) \/ NotesStep

SpecItems == Init /\ [][NextItems]_vars

\* item is line without its leading run of blanks and bullets (and the blanks after it)
IsCleaned(line, item) ==
    /\ item # ""
    /\ Char(item, 1) \notin BulletClass
    /\ Char(item, Len(item)) \notin SpaceSet
    /\ \E a \in 0..Len(line) : \E b \in a..Len(line) :
          /\ item = Mid(line, a + 1, b)
          /\ \A p \in 1..a : Char(line, p) \in BulletClass
          /\ \A p \in (b + 1)..Len(line) : Char(line, p) \in SpaceSet

\* the step of a scanner over the line before it: it emits nothing, or one item that
\* comes from a non-blank line, read in a state that allows it, cleaned, long enough
EmitsProperly(old, new, allowed, least) ==
    \/ new = old
    \/ /\ Len(new) = Len(old) + 1 /\ SubSeq(new, 1, Len(old)) = old
       /\ allowed
       /\ Strip(lines[i]) # ""
       /\ IsCleaned(lines[i], new[Len(new)])
       /\ Len(new[Len(new)]) >= least

\* Inside, at a line that neither opens nor ends the section and whose item is
\* shorter than least
ShortItem(loop, inside, markers, least) ==
    /\ AtLine(loop, inside)
    /\ Strip(lines[i]) # ""
    /\ ~ContainsAny(Lower(lines[i]), markers)
    /\ ~EndsSection(lines[i])
    /\ Len(Cleaned(lines[i])) < least

\* the least lengths the specification gives
LeastItem == 6
LeastObjective == 11

\* what holds of three of the scanners, and of the discarded items of all four
ItemsOfThree ==
    /\ AtLine("key_concepts_loop", TRUE)
        => EmitsProperly(concepts, concepts', in_concepts_section, LeastItem)
    /\ AtLine("prior_knowledge_loop", TRUE)
        => EmitsProperly(prior_knowledge, prior_knowledge', in_prior_section, LeastItem)
    /\ AtLine("real_world_connections_loop", TRUE)
        => EmitsProperly(connections, connections', in_realworld_section, LeastItem)
    /\ ShortItem("key_concepts_loop", in_concepts_section, ConceptMarkers, LeastItem)
        => concepts' = concepts /\ in_concepts_section'
    /\ ShortItem("learning_objectives_loop", in_objectives_section, ObjectiveMarkers, LeastObjective)
        => objectives' = objectives /\ in_objectives_section'
    /\ ShortItem("prior_knowledge_loop", in_prior_section, PriorMarkers, LeastItem)
        => prior_knowledge' = prior_knowledge /\ in_prior_section'
    /\ ShortItem("real_world_connections_loop", in_realworld_section, RealWorldMarkers, LeastItem)
        => connections' = connections /\ in_realworld_section'

\* C12 (as amended): every item emitted by a section scanner comes from a non-blank
\* line read while the scanner was Inside or, in the objectives scanner, from a
\* start-marker line without a colon; it has its leading run of whitespace and
\* bullet characters removed and has length at least 6 (key concepts, prior
\* knowledge, real-world connections) or at least 11 (objectives); shorter items are
\* discarded without changing the scanner's state.
C12_ItemsEmitted ==
    [][/\ ItemsOfThree
       /\ AtLine("learning_objectives_loop", TRUE)
            => EmitsProperly(objectives, objectives',
                             \/ in_objectives_section
                             \/ (/\ ContainsAny(Lower(lines[i]), ObjectiveMarkers)
                                 /\ ~Contains(lines[i], ":")),
                             LeastObjective)]_vars

\* C12 (as stated): every item emitted by a section scanner comes from a non-blank
\* line read while the scanner was Inside, has its leading run of whitespace and
\* bullet characters removed, and has length at least 6 or, for objectives, 11;
\* shorter items are discarded without changing the scanner's state.
C12_ItemsEmittedInside ==
    [][/\ ItemsOfThree
       /\ AtLine("learning_objectives_loop", TRUE)
            => EmitsProperly(objectives, objectives', in_objectives_section, LeastObjective)]_vars

\* all four scanners went over an item of 6 characters and one of 11 with blanks
\* around it: the objectives kept the longer one only
C12_Witness ==
    /\ tool = "notes" /\ pc = "content_stats"
    /\ lines = <<AllHeader, "- Oxygen", "\t* Chlorophyll \t">>
    /\ concepts = <<"Oxygen", "Chlorophyll">>
    /\ objectives = <<"Chlorophyll">>
    /\ prior_knowledge = <<"Oxygen", "Chlorophyll">>
    /\ connections = <<"Oxygen", "Chlorophyll">>

-----------------------------------------------------------------------------
(* Texts of words, blanks and full stops, for the averages.                *)

\* the most pieces of a text
MaxPieces == 4

TextPieces == {"The", "cat\t", " ", ".", "\n"}

RECURSIVE Concat(_)
Concat(ps) == IF ps = <<>> THEN "" ELSE Head(ps) \o Concat(Tail(ps))

SentenceInputs ==
    {Concat(ps) : ps \in SeqsUpTo(TextPieces, MaxPieces)} \cup {"The cat sat."}

NextSentences == BeginGrade(SentenceInputs)

SpecSentences == Init /\ [][NextSentences]_vars

\* the characters of text that are not whitespace
TokenChars(text) == {p \in 1..Len(text) : Char(text, p) \notin SpaceSet}

\* the places where a whitespace-delimited token of text begins
TokenStarts(text) == {p \in TokenChars(text) : p = 1 \/ (p - 1) \notin TokenChars(text)}

\* the full stops of text
Periods(text) == {p \in 1..Len(text) : Char(text, p) = "."}

\* GradeLevelAnalyzer.run has returned for the text in notes
AveragesKnown == tool = "grade" /\ pc = "done"

\* C13: GradeLevelAnalyzer computes the word average as the characters of the
\* whitespace-delimited tokens over the number of tokens, and the sentence average
\* as the number of tokens over the number of segments of a split at ".", which is
\* the number of full stops plus one, empty segments counted: "The cat sat." gives
\* 3 tokens over 2 segments = 1.5.
C13_Averages ==
    AveragesKnown =>
        LET tokens == Cardinality(TokenStarts(notes))
            chars == Cardinality(TokenChars(notes))
            segments == Cardinality(Periods(notes)) + 1
        IN  /\ ~raised
            /\ avg_word_length.den > 0 /\ avg_sentence_length.den > 0
            /\ tokens > 0 => avg_word_length.num * tokens = chars * avg_word_length.den
            /\ avg_sentence_length.num * segments = tokens * avg_sentence_length.den
            /\ notes = "The cat sat." =>
                /\ avg_sentence_length.num * 2 = 3 * avg_sentence_length.den
                /\ result[4] = "  @ Average Word Length: 3.3 characters\n"
                /\ result[5] = "  @ Average Sentence Length: 1.5 words\n"

\* the averages of a text that ends in a full stop after several tokens
C13_Witness ==
    /\ AveragesKnown
    /\ notes = "The cat sat."
    /\ avg_word_length = [num |-> 10, den |-> 3]
    /\ avg_sentence_length = [num |-> 3, den |-> 2]

-----------------------------------------------------------------------------
(* main.py: run(), from the start of the process to its exit.              *)

\* os.getenv gives None for a variable that is not set: falsy, as the empty string is
NoKey == ""
PlaceholderKey == "your-openai-api-key-here"

\* input() raised EOFError; no line that input() returns holds a line feed
EndOfInput == "\n"

\* the example notes of run() (the arrow of the equation written ->), line by line
ExampleNotes ==
    "\n" \o
    "Topic: Introduction to Photosynthesis\n" \o
    "\n" \o
    "Grade Level: 7th Grade Life Science\n" \o
    "\n" \o
    "Key Concepts:\n" \o
    "- Photosynthesis is the process plants use to convert light energy into chemical energy\n" \o
    "- Chemical equation: 6CO2 + 6H2O + light energy -> C6H12O6 + 6O2\n" \o
    "- Takes place in chloroplasts, specifically in chlorophyll\n" \o
    "- Two main stages: light-dependent reactions and light-independent reactions (Calvin Cycle)\n" \o
    "- Light-dependent reactions occur in thylakoid membranes\n" \o
    "- Calvin Cycle occurs in the stroma\n" \o
    "- Factors affecting photosynthesis: light intensity, CO2 concentration, temperature\n" \o
    "\n" \o
    "Learning Objectives:\n" \o
    "- Students will explain the process of photosynthesis\n" \o
    "- Students will identify the reactants and products\n" \o
    "- Students will describe the role of chlorophyll and chloroplasts\n" \o
    "- Students will analyze how environmental factors affect photosynthesis rates\n" \o
    "\n" \o
    "Prior Knowledge:\n" \o
    "- Basic cell structure (organelles)\n" \o
    "- Chemical equations basics\n" \o
    "- Understanding of energy concepts\n" \o
    "- Plant cell anatomy\n" \o
    "\n" \o
    "Real-World Connections:\n" \o
    "- Food production and agriculture\n" \o
    "- Oxygen in Earth's atmosphere\n" \o
    "- Climate change and carbon cycle\n" \o
    "- Renewable energy and biomass\n"

\* sys.exit(status), also the exit of the interpreter on an exception nobody caught
Exit(status) == main_pc' = "exited" /\ exit_status' = status

\* line.strip() == ""
Blank(line) == Strip(line) = ""

\* the process starts: `python -m teacher_assistant.main` with arguments in an environment
MainRun(keys, arguments) ==
    /\ main_pc = "idle"
    /\ \E key \in keys, args \in arguments :
        /\ api_key' = key /\ argv' = args
    /\ main_pc' = "check_environment"
    /\ typed' = <<>> /\ input_lines' = <<>> /\ empty_line_count' = 0
    /\ main_notes' = "" /\ confirm' = NoAnswer /\ kickoff' = "no"
    /\ UNCHANGED <<toolVars, output_file, exit_status>>

\* check_environment()
CheckEnvironment ==
    /\ main_pc = "check_environment"
    /\ IF api_key = NoKey \/ api_key = PlaceholderKey
       THEN Exit(1)
       ELSE main_pc' = "input_method" /\ UNCHANGED exit_status
    /\ UNCHANGED <<toolVars, api_key, argv, typed, input_lines, empty_line_count, main_notes,
                   confirm, kickoff, output_file>>

\* run(): `if len(sys.argv) > 1`, the example notes, or on to the file or to the keyboard
DetermineInput ==
    /\ main_pc = "input_method"
    /\ IF argv = <<>>
       THEN main_pc' = "get_user_input" /\ UNCHANGED main_notes
       ELSE IF argv[1] = "--example"
       THEN main_pc' = "confirm" /\ main_notes' = ExampleNotes
       ELSE main_pc' = "read_notes_from_file" /\ UNCHANGED main_notes
    /\ input_lines' = <<>> /\ empty_line_count' = 0
    /\ UNCHANGED <<toolVars, api_key, argv, typed, confirm, kickoff, output_file, exit_status>>

\* read_notes_from_file(arg), for each thing open() and read() may do
ReadNotesFromFile(contents) ==
    /\ main_pc = "read_notes_from_file"
    /\ \E outcome \in {"FileNotFoundError", "Exception", "read"} :
        IF outcome = "read"
        THEN \E content \in contents :
                IF Strip(content) = ""
                THEN Exit(1) /\ UNCHANGED main_notes
                ELSE main_pc' = "confirm" /\ main_notes' = content /\ UNCHANGED exit_status
        ELSE Exit(1) /\ UNCHANGED main_notes
    /\ UNCHANGED <<toolVars, api_key, argv, typed, input_lines, empty_line_count,
                   confirm, kickoff, output_file>>

\* the most lines get_user_input is given before the input ends
MaxInput == 4

\* a loop that never sets empty_line_count back to 0
InputLineNoReset(pool) ==
    /\ main_pc = "get_user_input"
    /\ \E line \in pool \cup {EndOfInput} :
        /\ line # EndOfInput => Len(typed) < MaxInput
        /\ typed' = Append(typed, line)
        /\ IF line = EndOfInput
           THEN main_pc' = "join" /\ UNCHANGED <<input_lines, empty_line_count>>
           ELSE IF Blank(line)
           THEN /\ empty_line_count' = empty_line_count + 1
                /\ IF empty_line_count' >= 2
                   THEN main_pc' = "join" /\ UNCHANGED input_lines
                   ELSE input_lines' = Append(input_lines, line) /\ UNCHANGED main_pc
           ELSE /\ UNCHANGED empty_line_count
                /\ input_lines' = Append(input_lines, line)
                /\ UNCHANGED main_pc
    /\ UNCHANGED <<toolVars, api_key, argv, main_notes, confirm, kickoff, output_file,
                   exit_status>>

\* get_user_input(), an iteration of `while True`: a call of input() and what follows it
InputLine(pool) ==
    /\ main_pc = "get_user_input"
    /\ \E line \in pool \cup {EndOfInput} :
        /\ line # EndOfInput => Len(typed) < MaxInput
        /\ typed' = Append(typed, line)
        /\ IF line = EndOfInput
           THEN main_pc' = "join" /\ UNCHANGED <<input_lines, empty_line_count>>
           ELSE IF Blank(line)
           THEN /\ empty_line_count' = empty_line_count + 1
                /\ IF empty_line_count' >= 2
                   THEN main_pc' = "join" /\ UNCHANGED input_lines
                   ELSE input_lines' = Append(input_lines, line) /\ UNCHANGED main_pc
           ELSE /\ empty_line_count' = 0
                /\ input_lines' = Append(input_lines, line)
                /\ UNCHANGED main_pc
    /\ UNCHANGED <<toolVars, api_key, argv, main_notes, confirm, kickoff, output_file,
                   exit_status>>

\* get_user_input(), after the loop: the notes, or the exit when there are none
JoinNotes ==
    /\ main_pc = "join"
    /\ LET joined == Strip(Join(input_lines, "\n"))
       IN  IF joined = ""
           THEN Exit(1) /\ UNCHANGED main_notes
           ELSE main_pc' = "confirm" /\ main_notes' = joined /\ UNCHANGED exit_status
    /\ UNCHANGED <<toolVars, api_key, argv, typed, input_lines, empty_line_count,
                   confirm, kickoff, output_file>>

\* a confirmation that goes on unless the answer is a no
ConfirmUnlessNo(answers) ==
    /\ main_pc = "confirm"
    /\ \E line \in answers \cup {EndOfInput} :
        /\ typed' = Append(typed, line)
        /\ IF line = EndOfInput
           THEN Exit(1) /\ UNCHANGED confirm
           ELSE /\ confirm' = Lower(Strip(line))
                /\ IF confirm' \in {"no", "n"}
                   THEN Exit(0)
                   ELSE main_pc' = "crew" /\ UNCHANGED exit_status
    /\ UNCHANGED <<toolVars, api_key, argv, input_lines, empty_line_count, main_notes,
                   kickoff, output_file>>

\* run(): confirm = input(...).strip().lower(); an EOFError here is caught by nobody
Confirm(answers) ==
    /\ main_pc = "confirm"
    /\ \E line \in answers \cup {EndOfInput} :
        /\ typed' = Append(typed, line)
        /\ IF line = EndOfInput
           THEN Exit(1) /\ UNCHANGED confirm
           ELSE /\ confirm' = Lower(Strip(line))
                /\ IF confirm' \notin {"yes", "y"}
                   THEN Exit(0)
                   ELSE main_pc' = "crew" /\ UNCHANGED exit_status
    /\ UNCHANGED <<toolVars, api_key, argv, input_lines, empty_line_count, main_notes,
                   kickoff, output_file>>

\* run(): crew_instance = TeacherAssistantCrew(), which returns or raises
CreateCrew ==
    /\ main_pc = "crew"
    /\ \E outcome \in {"returned", "raised"} :
        IF outcome = "returned"
        THEN main_pc' = "kickoff" /\ UNCHANGED exit_status
        ELSE Exit(1)
    /\ UNCHANGED <<toolVars, api_key, argv, typed, input_lines, empty_line_count, main_notes,
                   confirm, kickoff, output_file>>

\* run(): result = crew_instance.crew().kickoff(inputs=inputs), which returns or raises
Kickoff ==
    /\ main_pc = "kickoff"
    /\ \E outcome \in {"returned", "raised"} :
        /\ kickoff' = outcome
        /\ IF outcome = "returned"
           THEN main_pc' = "save_results" /\ UNCHANGED exit_status
           ELSE Exit(1)
    /\ UNCHANGED <<toolVars, api_key, argv, typed, input_lines, empty_line_count, main_notes,
                   confirm, output_file>>

\* save_results(result): mkdir or open raises, a write raises, or the file is written
\* and run() returns
SaveResults ==
    /\ main_pc = "save_results"
    /\ \E outcome \in {"absent", "partial", "complete"} :
        /\ output_file' = outcome
        /\ Exit(IF outcome = "complete" THEN 0 ELSE 1)
    /\ UNCHANGED <<toolVars, api_key, argv, typed, input_lines, empty_line_count, main_notes,
                   confirm, kickoff>>

\* the environments, arguments, files and lines of the runs
ApiKeys == {NoKey, PlaceholderKey, "sk-test"}
Arguments == {<<>>, <<"--example">>, <<"notes.txt">>}
FileContents == {"", " \n", "Topic: cells\n"}
InputPool == {"", "  ", "Topic: cells", "- Cell wall", "yes"}
AnswerPool == {"yes", "y", " Yes ", "Y", "no", "", "yes please"}

NextMain ==
    \/ MainRun(ApiKeys, Arguments)
    \/ CheckEnvironment
    \/ DetermineInput
    \/ ReadNotesFromFile(FileContents)
    \/ InputLine(InputPool)
    \/ JoinNotes
    \/ Confirm(AnswerPool)
    \/ CreateCrew
    \/ Kickoff
    \/ SaveResults

SpecMain == Init /\ [][NextMain]_vars

\* check_environment let the run through
EnvironmentPassed == api_key \notin {NoKey, PlaceholderKey}

\* the answers of AnswerPool that are a yes or a y, whatever their case and the
\* blanks around them
YesAnswers == {"yes", "y", " Yes ", "Y"}

\* the run stands at the call of kickoff, or has made it
KickoffReached == main_pc = "kickoff" \/ kickoff # "no"

\* C14: in run(), the crew's kickoff is reached only after check_environment
\* passed, non-empty notes were obtained and the user answered yes or y (in any
\* case, blanks around it aside) to the confirmation; save_results is called only
\* after kickoff returned without raising; any other answer exits with status 0, no
\* kickoff and no file; an exception from kickoff exits with status 1 and no file.
C14_KickoffGated ==
    /\ KickoffReached =>
        /\ EnvironmentPassed
        /\ main_notes # ""
        /\ confirm \in {"yes", "y"}
        /\ typed # <<>> /\ typed[Len(typed)] \in YesAnswers
    /\ (main_pc = "save_results" \/ output_file # "absent") => kickoff = "returned"
    /\ (confirm # NoAnswer /\ typed # <<>> /\ typed[Len(typed)] \notin YesAnswers) =>
        /\ main_pc = "exited" /\ exit_status = 0
        /\ kickoff = "no" /\ output_file = "absent"
    /\ kickoff = "raised" =>
        /\ main_pc = "exited" /\ exit_status = 1
        /\ output_file = "absent"

\* a run on notes from the keyboard, confirmed with " Yes ", whose kickoff returned
\* and whose results were saved
C14_Witness ==
    /\ main_pc = "exited" /\ exit_status = 0
    /\ argv = <<>>
    /\ typed[Len(typed)] = " Yes "
    /\ kickoff = "returned" /\ output_file = "complete"

\* what input() gave at place k ends the reading: the end of the input, or the
\* second of two blank lines in a row
EndsReading(k) ==
    \/ typed[k] = EndOfInput
    \/ k > 1 /\ Blank(typed[k]) /\ typed[k - 1] # EndOfInput /\ Blank(typed[k - 1])

\* the reading ended at the last thing read and at nothing before it
ReadToTheEnd ==
    /\ typed # <<>>
    /\ EndsReading(Len(typed))
    /\ \A k \in 1..(Len(typed) - 1) : ~EndsReading(k)

\* the places of the lines read that are not blank
Entered == {k \in 1..Len(typed) : typed[k] # EndOfInput /\ ~Blank(typed[k])}

\* get_user_input has returned, and run() has read nothing since
NotesReturned == argv = <<>> /\ main_pc = "confirm"

\* get_user_input has ended the process
NoNotesExit == argv = <<>> /\ EnvironmentPassed /\ main_pc = "exited" /\ main_notes = ""

\* the least and the greatest of a set of numbers that is not empty
Least(S) == CHOOSE k \in S : \A m \in S : k <= m
Greatest(S) == CHOOSE k \in S : \A m \in S : m <= k

\* C15: get_user_input stops reading at the second of two consecutive blank lines
\* or at the end of the input, whichever comes first, and reads nothing after it; a
\* line that is not blank resets the count, so single blank lines between content
\* are kept; the notes returned are non-empty, have no whitespace at either end and
\* never hold two blank lines in a row; when nothing but blank lines was entered the
\* process exits with status 1 instead of returning.
C15_InputRead ==
    /\ NotesReturned =>
        LET kept == SplitAt(main_notes, {"\n"})
        IN  /\ ReadToTheEnd
            /\ Entered # {}
            /\ main_notes # ""
            /\ Char(main_notes, 1) \notin SpaceSet
            /\ Char(main_notes, Len(main_notes)) \notin SpaceSet
            /\ \A k \in 1..(Len(kept) - 1) : ~(Blank(kept[k]) /\ Blank(kept[k + 1]))
            /\ Len(kept) = Greatest(Entered) - Least(Entered) + 1
            /\ \A k \in 1..Len(kept) :
                  Blank(kept[k]) <=> (Least(Entered) + k - 1) \notin Entered
    /\ NoNotesExit => ReadToTheEnd /\ Entered = {} /\ exit_status = 1
    /\ (argv = <<>> /\ main_pc \in {"join", "confirm", "crew", "kickoff", "save_results"})
        => ReadToTheEnd \/ confirm # NoAnswer
    /\ (argv = <<>> /\ main_pc \in {"crew", "kickoff", "save_results"}) => Entered # {}

\* notes came back with a single blank line kept between two lines, the count
\* having been reset, and the reading ended with the input
C15_Witness ==
    /\ NotesReturned
    /\ typed = <<"", "Topic: cells", "  ", "- Cell wall", EndOfInput>>
    /\ main_notes = "Topic: cells\n  \n- Cell wall"

====
